---- MODULE Spec2Model ----
(***************************************************************************)
(* A model of the message delivery and session-coordination layer of the   *)
(* vector-sdk-js bot client: VectorClient.publish (quorum publish), the    *)
(* relay health monitor, the envelope dispatcher with its group registry,  *)
(* the directed-to-bot classifier and the message emitter.                 *)
(*                                                                         *)
(* Strings whose characters matter (contents, tag values, group ids, bot   *)
(* names) are sequences of one-character strings.  Event ids are opaque.   *)
(***************************************************************************)
EXTENDS Integers, Sequences, FiniteSets, TLC

\* ------------------------------------------------------------------ bounds

\* Largest `retries` argument given to publish.
MaxRetries == 2

\* How many clock ticks (of one poll interval each) the monitor is followed for.
MaxTicks == 4

\* Longest content, over the small alphabet, given to the directed-to-bot
\* classifier (the contents of the spec's examples are added to these).
MaxContentLen == 3

\* Capacity of the dedup cache in the model.  The source keeps 10 000 ids
\* (seenMessageIds.size > 10000); the model keeps MaxSeen, so that eviction
\* happens within a few deliveries.
MaxSeen == 1

\* How many events the relays hand to a client, live and from the history.
MaxDeliveries == 2

\* How many events one historical query returns at most.
MaxHistory == 2

\* How many sendGroupMessage calls are made on a client.
MaxSends == 1

\* The events the relays hand to a client that is observed for its dedup
\* cache only.
MaxDedupDeliveries == 3

\* The tags of an event whose group id is extracted.
MaxTags == 2

\* ------------------------------------------------------------- text helpers

Max(a, b) == IF a >= b THEN a ELSE b

SeqRange(s) == {s[i] : i \in 1..Len(s)}

\* All sequences over `alphabet` of length at most n.
SeqsUpTo(alphabet, n) == UNION {[1..k -> alphabet] : k \in 0..n}

\* String.prototype.toLowerCase, on the letters that occur in the model.
lowerChar(c) ==
    CASE c = "B" -> "b"
      [] c = "O" -> "o"
      [] c = "V" -> "v"
      [] OTHER -> c

toLowerCase(s) == [i \in 1..Len(s) |-> lowerChar(s[i])]

\* White space as String.prototype.trim and the regular expression class \s see it.
isSpace(c) == c \in {" ", "\t", "\n"}

RECURSIVE trimStart(_)
trimStart(s) ==
    IF s # <<>> /\ isSpace(Head(s)) THEN trimStart(Tail(s)) ELSE s

RECURSIVE trimEnd(_)
trimEnd(s) ==
    IF s # <<>> /\ isSpace(s[Len(s)]) THEN trimEnd(SubSeq(s, 1, Len(s) - 1)) ELSE s

\* String.prototype.trim
trim(s) == trimEnd(trimStart(s))

\* String.prototype.startsWith
startsWith(s, prefix) ==
    Len(s) >= Len(prefix) /\ SubSeq(s, 1, Len(prefix)) = prefix

\* ------------------------------------------------------------------- state

VARIABLES
    \* VectorClient.publish: one call and the pool requests it issues
    pubRelays,        \* the `relays` argument (a sequence of relay addresses)
    pubRetries,       \* the `retries` argument of the outermost call
    pubRetriesLeft,   \* `retries` of the innermost (current) call
    pubPc,            \* "idle" | "connecting" | "publishing" | "returned" | "thrown"
    pubError,         \* what the call threw
    pubAttempts,      \* pool.publish rounds issued so far
    pubEnsureCalls,   \* pool.ensureRelay requests issued so far
    pubPublishCalls,  \* per-relay publish requests issued so far
    pubConnected,     \* relay positions whose last ensureRelay succeeded
    pubResults,       \* outcomes of the last pool.publish round, per relay position
    pubAckSeen        \* history: some relay acknowledged in some attempt

VARIABLES
    \* the relay health monitor of VectorBotClient
    reconnectIntervalMs,         \* options.reconnectIntervalMs ?? 15000
    shouldReconnect,             \* options.reconnect !== false
    now,                         \* Date.now()
    poolStatus,                  \* pool.listConnectionStatus(), per relay
    connectionState,             \* relay -> "undefined" | "true" | "false"
    relayDownStreak,
    relayUpStreak,
    relayLastReconnectAttemptAt,
    reconnectingRelays,
    connectionMonitor,           \* the interval timer is active
    connectionMonitorStartedAt,
    monitorLastFire,             \* when the timer was started or last fired
    prevObserved,                \* history: what the previous poll saw, per relay
    ensureRelayPending,          \* history: pending pool.ensureRelay calls, per relay
    lastTransition,              \* history: the last of disconnect / reconnect emitted, per relay
    activeTimers,                \* history: setInterval timers set and not cleared
    emitted                      \* the notifications emitted by the last step

pubVars == <<pubRelays, pubRetries, pubRetriesLeft, pubPc, pubError, pubAttempts,
             pubEnsureCalls, pubPublishCalls, pubConnected, pubResults, pubAckSeen>>

monVars == <<reconnectIntervalMs, shouldReconnect, now, poolStatus, connectionState,
             relayDownStreak, relayUpStreak, relayLastReconnectAttemptAt,
             reconnectingRelays, connectionMonitor, connectionMonitorStartedAt,
             monitorLastFire, prevObserved, ensureRelayPending, lastTransition, activeTimers>>

VARIABLES
    \* one call of isGroupContentDirectedToBot
    clsPublicKey,    \* bot.publicKey
    clsName,         \* bot.name
    clsDisplayName,  \* bot.displayName
    clsContent,
    clsBotInGroup,
    clsTags,
    clsResult        \* "none" before the call, then "true" | "false"

clsVars == <<clsPublicKey, clsName, clsDisplayName, clsContent, clsBotInGroup,
             clsTags, clsResult>>

VARIABLES
    \* VectorBotClient: options
    optConfig,                   \* "ok" | "nokey" (no privateKey) | "norelays"
    vectorOnly,                  \* options.vectorOnly !== false
    mlsAdapter,                  \* options.mlsAdapter is given (with all its operations)
    autoDiscoverGroups,          \* options.autoDiscoverGroups === true
    discoverGroupsFromHistory,   \* options.discoverGroupsFromHistory
    deliveryBudget,              \* how many events the relays hand to this client
    logDeliveries,               \* whether deliveryLog is kept (a history variable)
    \* VectorBotClient: fields
    bot,                         \* this.bot is set
    configuredGroupIds,
    joinedGroupIds,
    knownGroupIds,
    observedGroupIds,
    seenMessageIds,              \* a Set, in insertion order
    profileCache,                \* pubkey -> "none" (no entry) | "empty" | "data"
    giftWrapSubscription,        \* "none" | "open" | "closed"
    dmSubscription,
    groupSubscription,
    groupFilter,                 \* the '#h' values of the group filter
    poolReleased,                \* bot.client.pool.close(relays) was called
    \* calls in flight
    connectPc,                   \* where connect() stands
    pendingLookups,              \* emitMessage calls awaiting getProfile
    pendingDecrypts,             \* adapter.decryptGroupWrapper calls
    pendingWelcomes,             \* adapter.processWelcome calls
    pendingSends,                \* sendGroupMessage calls awaiting the send
    callResult,                  \* what the call the last step completed gave its
                                 \* caller: "none" | "true" | "false" | an error message
    \* history
    messageCount,                \* event id -> `message` notifications emitted
    everEvicted,                 \* ids that were evicted from seenMessageIds
    decryptCalls,                \* event id -> decryptGroupWrapper calls made
    emitCalls,                   \* event id -> emitMessage invocations made
    deliveries,                  \* events handed to the client so far
    deliveryLog,                 \* ids of the events the subscriptions delivered, in order
    sends                        \* sendGroupMessage calls made so far

optVars == <<optConfig, vectorOnly, mlsAdapter, autoDiscoverGroups,
             discoverGroupsFromHistory, deliveryBudget,
             logDeliveries>>

cliVars == <<optVars, bot, configuredGroupIds, joinedGroupIds, knownGroupIds,
             observedGroupIds, seenMessageIds, profileCache, giftWrapSubscription,
             dmSubscription, groupSubscription, groupFilter, connectPc,
             pendingLookups, pendingDecrypts, pendingWelcomes,
             pendingSends, messageCount, everEvicted, decryptCalls, emitCalls,
             deliveries, deliveryLog, sends, poolReleased, callResult>>

VARIABLES
    \* one group event handed to handleGroupMessage, for its group id
    extraction       \* the event's tags, and once it is handled what came of it

extVars == <<extraction>>

vars == <<pubVars, monVars, clsVars, extVars, cliVars, emitted>>

\* What the steps of one component leave alone.
notPub == <<monVars, clsVars, extVars, cliVars, emitted>>
notMon == <<pubVars, clsVars, extVars, cliVars>>
notCls == <<pubVars, monVars, extVars, cliVars, emitted>>
notCli == <<pubVars, clsVars, extVars>>
notExt == <<pubVars, monVars, clsVars, cliVars>>

\* ------------------------------------------------------------ the universe

Relays == {"r1", "r2"}

\* bot.client.relays, in order
RelaySeq == <<"r1", "r2">>

\* The clock when the client is constructed, and how far one tick moves it.
StartTime == 100 * 1000

\* The poll intervals a client may be configured with (the second is the default).
IntervalChoices == {5000, 15000}

\* The relay lists a caller may pass: no relay, one relay, two relays.
RelayLists == {<<>>, <<"r1">>, <<"r1", "r2">>}

\* What one relay answers to a publish request: an acknowledgement, or a
\* rejection with a reason.
PublishOutcomes == {"ack", "rej_a", "rej_b"}

ConfigError == "At least one relay is required"
GenericPublishError == "Failed to publish to relays"

\* ------------------------------------------------------- VectorClient.publish

\* results.filter((result) => result.status === 'fulfilled')
fulfilled(results) == {i \in 1..Len(results) : results[i] = "ack"}

\* results.find(...)   -- mutated: the last rejected result is taken
firstRejectedReason_Last(results) ==
    LET rejected == {i \in 1..Len(results) : results[i] # "ack"}
    IN  IF rejected = {}
        THEN GenericPublishError
        ELSE results[CHOOSE i \in rejected : \A j \in rejected : i >= j]

\* results.find((result) => result.status === 'rejected'), as the error thrown
firstRejectedReason(results) ==
    LET rejected == {i \in 1..Len(results) : results[i] # "ack"}
    IN  IF rejected = {}
        THEN GenericPublishError
        ELSE results[CHOOSE i \in rejected : \A j \in rejected : i <= j]

\* if (fulfilled.length > 0) return;   -- mutated: every relay must acknowledge
publishSucceeded_AllRequired(results) ==
    Cardinality(fulfilled(results)) = Len(results)

publishSucceeded(results) == Cardinality(fulfilled(results)) > 0

\* if (!relays.length) throw ...       -- mutated: the guard is missing
relaysMissing_NoGuard(relays) == FALSE

relaysMissing(relays) == Len(relays) = 0

\* Entry of publish (the outermost call, and each recursive call): the guard
\* on the relay list, then ensureRelay is requested for every relay.
publishEnter(retries) ==
    /\ pubRetriesLeft' = retries
    /\ IF relaysMissing(pubRelays)
       THEN /\ pubPc' = "thrown"
            /\ pubError' = ConfigError
            /\ UNCHANGED pubEnsureCalls
       ELSE /\ pubPc' = "connecting"
            /\ pubError' = "none"
            /\ pubEnsureCalls' = pubEnsureCalls + Len(pubRelays)

\* A caller invokes publish(event, relays, retries).
Publish ==
    /\ pubPc = "idle"
    /\ publishEnter(pubRetries)
    /\ UNCHANGED <<pubRelays, pubRetries, pubAttempts, pubPublishCalls,
                   pubConnected, pubResults, pubAckSeen>>
    /\ UNCHANGED notPub

\* await Promise.allSettled(ensureRelay...) settles, whatever each connection
\* attempt gave; pool.publish is then requested for every relay.
PublishConnectSettled ==
    /\ pubPc = "connecting"
    /\ pubConnected' \in SUBSET (1..Len(pubRelays))
    /\ pubPc' = "publishing"
    /\ pubAttempts' = pubAttempts + 1
    /\ pubPublishCalls' = pubPublishCalls + Len(pubRelays)
    /\ UNCHANGED <<pubRelays, pubRetries, pubRetriesLeft, pubError,
                   pubEnsureCalls, pubResults, pubAckSeen>>
    /\ UNCHANGED notPub

\* await Promise.allSettled(pool.publish(...)) settles with `results`.
PublishSettled ==
    /\ pubPc = "publishing"
    /\ \E results \in [1..Len(pubRelays) -> PublishOutcomes] :
          /\ pubResults' = results
          /\ pubAckSeen' = (pubAckSeen \/ fulfilled(results) # {})
          /\ IF publishSucceeded(results)
             THEN /\ pubPc' = "returned"
                  /\ UNCHANGED <<pubError, pubRetriesLeft, pubEnsureCalls>>
             ELSE IF pubRetriesLeft > 0
             THEN publishEnter(pubRetriesLeft - 1)
             ELSE /\ pubPc' = "thrown"
                  /\ pubError' = firstRejectedReason(results)
                  /\ UNCHANGED <<pubRetriesLeft, pubEnsureCalls>>
    /\ UNCHANGED <<pubRelays, pubRetries, pubAttempts, pubPublishCalls, pubConnected>>
    /\ UNCHANGED notPub

PubInit ==
    /\ pubRelays \in RelayLists
    /\ pubRetries \in 0..MaxRetries
    /\ pubRetriesLeft = pubRetries
    /\ pubPc = "idle"
    /\ pubError = "none"
    /\ pubAttempts = 0
    /\ pubEnsureCalls = 0
    /\ pubPublishCalls = 0
    /\ pubConnected = {}
    /\ pubResults = <<>>
    /\ pubAckSeen = FALSE

PubOff ==
    /\ pubRelays = <<>>
    /\ pubRetries = 0
    /\ pubRetriesLeft = 0
    /\ pubPc = "idle"
    /\ pubError = "none"
    /\ pubAttempts = 0
    /\ pubEnsureCalls = 0
    /\ pubPublishCalls = 0
    /\ pubConnected = {}
    /\ pubResults = <<>>
    /\ pubAckSeen = FALSE

PubNext == Publish \/ PublishConnectSettled \/ PublishSettled

\* --------------------------------------------------- the relay health monitor

disconnectThreshold == 2
reconnectThreshold == 2

\* const reconnectBackoffMs = Math.max(15000, interval * 2)
\*   -- mutated: no backoff window
reconnectBackoffMs_None(interval) == 0

reconnectBackoffMs(interval) == Max(15000, interval * 2)

\* const warmupMs = Math.max(20000, interval * 2)   -- mutated: no warm-up
warmupMs_None(interval) == 0

warmupMs(interval) == Max(20000, interval * 2)

Note(type, relay) == [type |-> type, relay |-> relay]

\* The values one iteration of the poll loop computes for `relay`.
pollDownStreak(relay) == relayDownStreak[relay] + (IF poolStatus[relay] THEN 0 ELSE 1)
pollUpStreak(relay) == relayUpStreak[relay] + (IF poolStatus[relay] THEN 1 ELSE 0)

\* downStreak >= disconnectThreshold   -- mutated: a third down poll is asked for
downLongEnough_Third(relay) == pollDownStreak(relay) >= 3

\* ... && downStreak >= disconnectThreshold   -- mutated: the first down poll counts
downLongEnough_First(relay) == pollDownStreak(relay) >= 1

downLongEnough(relay) == pollDownStreak(relay) >= disconnectThreshold

\* ... && upStreak >= reconnectThreshold      -- mutated: the first up poll counts
upLongEnough_First(relay) == pollUpStreak(relay) >= 1

upLongEnough(relay) == pollUpStreak(relay) >= reconnectThreshold

\* if (previousStable === undefined) ...   -- mutated: the branch is missing
pollBranch_NoSeed(relay) ==
    IF connectionState[relay] = "true" /\ ~poolStatus[relay] /\ downLongEnough(relay)
    THEN IF now - connectionMonitorStartedAt >= warmupMs(reconnectIntervalMs)
         THEN "disconnect" ELSE "none"
    ELSE IF connectionState[relay] = "false" /\ poolStatus[relay] /\ upLongEnough(relay)
    THEN "reconnect"
    ELSE "none"

\* Which branch of the if / else-if chain on previousStable is taken.
pollBranch(relay) ==
    IF connectionState[relay] = "undefined" THEN "seed"
    ELSE IF connectionState[relay] = "true" /\ ~poolStatus[relay] /\ downLongEnough(relay)
    THEN IF now - connectionMonitorStartedAt >= warmupMs(reconnectIntervalMs)
         THEN "disconnect" ELSE "none"
    ELSE IF connectionState[relay] = "false" /\ poolStatus[relay] /\ upLongEnough(relay)
    THEN "reconnect"
    ELSE "none"

\* this.connectionState.set(relay, false) before emit('disconnect')
\*   -- mutated: the stable state is not written on a disconnect
pollStable_KeptOnDisconnect(relay) ==
    CASE pollBranch(relay) = "seed" -> IF poolStatus[relay] THEN "true" ELSE "false"
      [] pollBranch(relay) = "reconnect" -> "true"
      [] OTHER -> connectionState[relay]

pollStable(relay) ==
    CASE pollBranch(relay) = "seed" -> IF poolStatus[relay] THEN "true" ELSE "false"
      [] pollBranch(relay) = "disconnect" -> "false"
      [] pollBranch(relay) = "reconnect" -> "true"
      [] OTHER -> connectionState[relay]

\* if (shouldReconnect && !connected) and the backoff window has passed
pollAttemptsReconnect(relay) ==
    /\ shouldReconnect
    /\ ~poolStatus[relay]
    /\ ~(now - relayLastReconnectAttemptAt[relay] < reconnectBackoffMs(reconnectIntervalMs))

\* reconnectRelay: if (this.reconnectingRelays.has(relay)) return
\*   -- mutated: the in-flight marker is not looked at
reconnectRelayStarts_Unguarded(relay) == pollAttemptsReconnect(relay)

\* reconnectRelay is called for `relay` and gets past its guard.
reconnectRelayStarts(relay) ==
    /\ pollAttemptsReconnect(relay)
    /\ relay \notin reconnectingRelays

RECURSIVE pollNotes(_)
pollNotes(relays) ==
    IF relays = <<>> THEN <<>>
    ELSE (IF pollBranch(Head(relays)) \in {"disconnect", "reconnect"}
          THEN <<Note(pollBranch(Head(relays)), Head(relays))>>
          ELSE <<>>) \o pollNotes(Tail(relays))

\* if (this.connectionMonitor) { clearInterval(this.connectionMonitor) }
\*   -- mutated: the running timer is not cleared
clearedTimers_None(handle) == 0

\* The timers that `if (handle) clearInterval(handle)` clears.
clearedTimers(handle) == IF handle THEN 1 ELSE 0

\* connect() reaches startConnectionMonitor: a running timer is cleared, the
\* start time is taken and the timer is set.
startConnectionMonitor ==
    /\ activeTimers' = activeTimers - clearedTimers(connectionMonitor) + 1
    /\ connectionMonitor' = TRUE
    /\ connectionMonitorStartedAt' = now
    /\ monitorLastFire' = now

MonitorStart ==
    /\ ~connectionMonitor
    /\ startConnectionMonitor
    /\ emitted' = <<>>
    /\ UNCHANGED <<reconnectIntervalMs, shouldReconnect, now, poolStatus,
                   connectionState, relayDownStreak, relayUpStreak,
                   relayLastReconnectAttemptAt, reconnectingRelays, prevObserved,
                   ensureRelayPending, lastTransition>>
    /\ UNCHANGED notMon

\* connect() is called again and reaches startConnectionMonitor while the
\* timer of the earlier call is running.
MonitorRestart ==
    /\ connectionMonitor
    /\ startConnectionMonitor
    /\ emitted' = <<>>
    /\ UNCHANGED <<reconnectIntervalMs, shouldReconnect, now, poolStatus,
                   connectionState, relayDownStreak, relayUpStreak,
                   relayLastReconnectAttemptAt, reconnectingRelays, prevObserved,
                   ensureRelayPending, lastTransition>>
    /\ UNCHANGED notMon

\* close(): clearInterval.
MonitorClose ==
    /\ connectionMonitor
    /\ activeTimers' = activeTimers - clearedTimers(connectionMonitor)
    /\ connectionMonitor' = FALSE
    /\ emitted' = <<>>
    /\ UNCHANGED <<reconnectIntervalMs, shouldReconnect, now, poolStatus,
                   connectionState, relayDownStreak, relayUpStreak,
                   relayLastReconnectAttemptAt, reconnectingRelays,
                   connectionMonitorStartedAt, monitorLastFire, prevObserved,
                   ensureRelayPending, lastTransition>>
    /\ UNCHANGED notMon

\* The interval callback: one pass over bot.client.relays.
MonitorPoll ==
    /\ connectionMonitor
    /\ now - monitorLastFire >= reconnectIntervalMs
    /\ monitorLastFire' = now
    /\ relayDownStreak' =
          [r \in Relays |-> IF poolStatus[r] THEN 0 ELSE pollDownStreak(r)]
    /\ relayUpStreak' =
          [r \in Relays |-> IF poolStatus[r] THEN pollUpStreak(r) ELSE 0]
    /\ connectionState' = [r \in Relays |-> pollStable(r)]
    /\ relayLastReconnectAttemptAt' =
          [r \in Relays |-> IF pollAttemptsReconnect(r)
                            THEN now ELSE relayLastReconnectAttemptAt[r]]
    \* reconnectRelay returns at once for a relay whose attempt is in flight
    /\ reconnectingRelays' =
          reconnectingRelays \cup {r \in Relays : reconnectRelayStarts(r)}
    /\ ensureRelayPending' =
          [r \in Relays |-> ensureRelayPending[r]
                               + (IF reconnectRelayStarts(r) THEN 1 ELSE 0)]
    /\ prevObserved' = [r \in Relays |-> IF poolStatus[r] THEN "up" ELSE "down"]
    /\ lastTransition' =
          [r \in Relays |-> IF pollBranch(r) \in {"disconnect", "reconnect"}
                            THEN pollBranch(r) ELSE lastTransition[r]]
    /\ emitted' = pollNotes(RelaySeq)
    /\ UNCHANGED <<reconnectIntervalMs, shouldReconnect, now, poolStatus,
                   connectionMonitor, connectionMonitorStartedAt, activeTimers>>
    /\ UNCHANGED notMon

\* reconnectRelay: await pool.ensureRelay(relay) settles for `r`.
ReconnectSettledOf(r, ok) ==
    /\ ensureRelayPending[r] > 0
    /\ ensureRelayPending' = [ensureRelayPending EXCEPT ![r] = @ - 1]
    /\ reconnectingRelays' = reconnectingRelays \ {r}
    /\ emitted' = IF ok THEN <<>> ELSE <<Note("error", r)>>
    /\ UNCHANGED <<reconnectIntervalMs, shouldReconnect, now, poolStatus,
                   connectionState, relayDownStreak, relayUpStreak,
                   relayLastReconnectAttemptAt, connectionMonitor,
                   connectionMonitorStartedAt, monitorLastFire, prevObserved,
                   lastTransition, activeTimers>>
    /\ UNCHANGED notMon

ReconnectSettled == \E r \in Relays, ok \in BOOLEAN : ReconnectSettledOf(r, ok)

\* The pool's connection to a relay drops or comes back.
PoolStatusChange ==
    \E r \in Relays :
        /\ poolStatus' = [poolStatus EXCEPT ![r] = ~poolStatus[r]]
        /\ emitted' = <<>>
        /\ UNCHANGED <<reconnectIntervalMs, shouldReconnect, now, connectionState,
                       relayDownStreak, relayUpStreak, relayLastReconnectAttemptAt,
                       reconnectingRelays, connectionMonitor,
                       connectionMonitorStartedAt, monitorLastFire, prevObserved,
                       ensureRelayPending, lastTransition, activeTimers>>
        /\ UNCHANGED notMon

\* Time passes: the clock is followed in steps of one poll interval.
Tick ==
    /\ now + reconnectIntervalMs <= StartTime + MaxTicks * reconnectIntervalMs
    /\ now' = now + reconnectIntervalMs
    /\ emitted' = <<>>
    /\ UNCHANGED <<reconnectIntervalMs, shouldReconnect, poolStatus, connectionState,
                   relayDownStreak, relayUpStreak, relayLastReconnectAttemptAt,
                   reconnectingRelays, connectionMonitor,
                   connectionMonitorStartedAt, monitorLastFire, prevObserved,
                   ensureRelayPending, lastTransition, activeTimers>>
    /\ UNCHANGED notMon

MonStateInit ==
    /\ now = StartTime
    /\ connectionState = [r \in Relays |-> "undefined"]
    /\ relayDownStreak = [r \in Relays |-> 0]
    /\ relayUpStreak = [r \in Relays |-> 0]
    /\ relayLastReconnectAttemptAt = [r \in Relays |-> 0]
    /\ reconnectingRelays = {}
    /\ connectionMonitor = FALSE
    /\ connectionMonitorStartedAt = 0
    /\ monitorLastFire = 0
    /\ prevObserved = [r \in Relays |-> "none"]
    /\ ensureRelayPending = [r \in Relays |-> 0]
    /\ lastTransition = [r \in Relays |-> "none"]
    /\ activeTimers = IF connectionMonitor THEN 1 ELSE 0

MonInit ==
    /\ reconnectIntervalMs \in IntervalChoices
    /\ shouldReconnect \in BOOLEAN
    /\ poolStatus \in [Relays -> BOOLEAN]
    /\ MonStateInit

MonOff ==
    /\ reconnectIntervalMs = 15000
    /\ shouldReconnect = TRUE
    /\ poolStatus = [r \in Relays |-> TRUE]
    /\ MonStateInit

\* A monitor that has been polling for its warm-up time with every relay up:
\* four polls of a 5000 ms timer, the last one just now.
MonWarmInit ==
    /\ reconnectIntervalMs = 5000
    /\ shouldReconnect \in BOOLEAN
    /\ poolStatus = [r \in Relays |-> TRUE]
    /\ now = StartTime
    /\ connectionState = [r \in Relays |-> "true"]
    /\ relayDownStreak = [r \in Relays |-> 0]
    /\ relayUpStreak = [r \in Relays |-> 4]
    /\ relayLastReconnectAttemptAt = [r \in Relays |-> 0]
    /\ reconnectingRelays = {}
    /\ connectionMonitor = TRUE
    /\ connectionMonitorStartedAt = StartTime - 4 * 5000
    /\ monitorLastFire = StartTime
    /\ prevObserved = [r \in Relays |-> "up"]
    /\ ensureRelayPending = [r \in Relays |-> 0]
    /\ lastTransition = [r \in Relays |-> "none"]
    /\ activeTimers = IF connectionMonitor THEN 1 ELSE 0

\* The monitor of a client on which connect() may be called again and
\* close() is not called.
MonAgainNext ==
    \/ MonitorStart
    \/ MonitorRestart
    \/ MonitorPoll
    \/ ReconnectSettled
    \/ PoolStatusChange
    \/ Tick

MonNext ==
    \/ MonitorStart
    \/ MonitorClose
    \/ MonitorPoll
    \/ ReconnectSettled
    \/ PoolStatusChange
    \/ Tick

\* ------------------------------------------------ the directed-to-bot classifier

\* Public keys, as strings.
BotKey == <<"k", "b">>
PeerKey == <<"k", "p">>

\* Names and contents of the examples.
Bob == <<"b", "o", "b">>
AtBobHi == <<"@", "b", "o", "b", " ", "h", "i">>
BangPing == <<"!", "p", "i", "n", "g">>
BangPingPadded == <<" ", "!", "p", "i", "n", "g", " ">>
BobColonHi == <<"B", "o", "b", ":", " ", "h", "i">>

ContentAlphabet == {"@", "!", ":", " ", "b", "B"}

Contents ==
    SeqsUpTo(ContentAlphabet, MaxContentLen)
        \cup {AtBobHi, BangPing, BangPingPadded, BobColonHi}

BotNames == {<<>>, <<"b">>, <<"B">>, Bob}
BotDisplayNames == {<<>>, <<"B", "b">>, <<"b", ":">>}

\* Tag lists: a tag is a sequence of strings, its key first.
TagLists ==
    { <<>>,
      << <<"p", BotKey>> >>,
      << <<"p", PeerKey>> >>,
      << <<"h", <<"g", "1">>>>, <<"p", PeerKey>>, <<"p", BotKey>> >>,
      << <<"p">>, <<"e", BotKey>> >> }

\* for (const tag of tags) if (tag[0] === 'p' && tag[1] === bot.publicKey)
mentionsBot(publicKey, tags) ==
    \E i \in 1..Len(tags) :
        /\ Len(tags[i]) >= 1 /\ tags[i][1] = "p"
        /\ Len(tags[i]) >= 2 /\ tags[i][2] = publicKey

\* /^\!\S+/.test(text)
isCommand(text) == Len(text) >= 2 /\ text[1] = "!" /\ ~isSpace(text[2])

\* name && (lower.startsWith(`@${name}`) || lower.startsWith(`${name}:`))
addressedBy(lower, name) ==
    /\ name # <<>>
    /\ \/ startsWith(lower, <<"@">> \o name)
       \/ startsWith(lower, name \o <<":">>)

\* if (botInGroup && /^\!\S+/.test(text))   -- mutated: membership is not asked
commandAccepted_AnyGroup(botInGroup, text) == isCommand(text)

commandAccepted(botInGroup, text) == botInGroup /\ isCommand(text)

isGroupContentDirectedToBot(publicKey, name, displayName, content, botInGroup, tags) ==
    IF mentionsBot(publicKey, tags) THEN TRUE
    ELSE LET text == trim(content)
             lower == toLowerCase(text)
             botName == toLowerCase(name)
             botDisplay == toLowerCase(displayName)
         IN  IF text = <<>> THEN FALSE
             ELSE IF addressedBy(lower, botName) THEN TRUE
             ELSE IF addressedBy(lower, botDisplay) THEN TRUE
             ELSE IF commandAccepted(botInGroup, text) THEN TRUE
             ELSE FALSE

\* The classifier is called on one input.
Classify ==
    /\ clsResult = "none"
    /\ clsResult' =
          IF isGroupContentDirectedToBot(clsPublicKey, clsName, clsDisplayName,
                                         clsContent, clsBotInGroup, clsTags)
          THEN "true" ELSE "false"
    /\ UNCHANGED <<clsPublicKey, clsName, clsDisplayName, clsContent,
                   clsBotInGroup, clsTags>>
    /\ UNCHANGED notCls

ClsInit ==
    /\ clsPublicKey = BotKey
    /\ clsName \in BotNames
    /\ clsDisplayName \in BotDisplayNames
    /\ clsContent \in Contents
    /\ clsBotInGroup \in BOOLEAN
    /\ clsTags \in TagLists
    /\ clsResult = "none"

ClsOff ==
    /\ clsPublicKey = BotKey
    /\ clsName = <<>>
    /\ clsDisplayName = <<>>
    /\ clsContent = <<>>
    /\ clsBotInGroup = FALSE
    /\ clsTags = <<>>
    /\ clsResult = "none"

\* -------------------------------------------------- events and their handlers

\* nostr-tools/kinds, and the kinds the client declares itself
EncryptedDirectMessage == 4
ChatMessage == 9
PrivateDirectMessage == 14
VECTOR_MLS_WELCOME_KIND == 443
VECTOR_MLS_GROUP_WRAPPER_KIND == 444
GIFT_WRAP_KIND == 1059

\* JavaScript's undefined, where a string is expected; and the empty string
Undefined == <<"undefined">>
Empty == <<>>

\* `value` is truthy   -- mutated: the empty string counts as truthy
truthy_Defined(value) == value # Undefined

\* `value` is truthy
truthy(value) == value # Undefined /\ value # Empty

\* a || b
orElse(a, b) == IF truthy(a) THEN a ELSE b

\* The key of an ephemeral gift-wrap author.
EphemeralKey == <<"k", "e">>
\* The authors of messages, whose profiles are looked up.
Pubkeys == {BotKey, PeerKey}

\* Group ids: plain ones, and one that is a 32-character hex identifier.
G1 == <<"g", "1">>
G2 == <<"g", "2">>
G3 == <<"g", "3">>
G3Padded == <<" ", "g", "3", " ">>
Blank == <<" ">>
Hex32 == [i \in 1..32 |-> IF i % 2 = 0 THEN "a" ELSE "7"]

Hello == <<"h", "e", "l", "l", "o">>
Cipher == <<"?">>

HexChars == {"0", "1", "2", "3", "4", "5", "6", "7", "8", "9",
             "a", "b", "c", "d", "e", "f", "A", "B", "C", "D", "E", "F"}

\* /^[a-f0-9]{32,64}$/i.test(value)
isHexId(value) ==
    /\ value # Undefined
    /\ Len(value) >= 32 /\ Len(value) <= 64
    /\ \A i \in 1..Len(value) : value[i] \in HexChars

\* An event id that is missing or is not 64 hex characters.
NoId == "no-id"

\* What decrypting or unwrapping an event gives: nothing (ok = FALSE), the
\* plaintext of a direct message (content), or the rumor of a gift wrap.
NoInner ==
    [ok |-> FALSE, id |-> NoId, pubkey |-> Empty, kind |-> 0, tags |-> <<>>,
     content |-> Empty]

Inner(id, pubkey, kind, tags, content) ==
    [ok |-> TRUE, id |-> id, pubkey |-> pubkey, kind |-> kind, tags |-> tags,
     content |-> content]

Event(id, pubkey, kind, tags, content, inner) ==
    [id |-> id, pubkey |-> pubkey, kind |-> kind, tags |-> tags,
     content |-> content, inner |-> inner]

\* Gift wraps (kind 1059) as the relays hold them.
WrapDm ==
    Event("w_dm", EphemeralKey, GIFT_WRAP_KIND, << <<"p", BotKey>> >>, Cipher,
          Inner("u_dm", PeerKey, PrivateDirectMessage, <<>>, Hello))
WrapDmEmpty ==
    Event("w_dm0", EphemeralKey, GIFT_WRAP_KIND, << <<"p", BotKey>> >>, Cipher,
          Inner("u_dm0", PeerKey, PrivateDirectMessage, <<>>, Empty))
WrapOpaque ==
    Event("w_opq", EphemeralKey, GIFT_WRAP_KIND, << <<"p", PeerKey>> >>, Cipher, NoInner)
WrapGroup ==
    Event("w_grp", EphemeralKey, GIFT_WRAP_KIND, << <<"p", BotKey>> >>, Cipher,
          Inner("x_g1", PeerKey, VECTOR_MLS_GROUP_WRAPPER_KIND, << <<"h", G1>> >>, Cipher))
WrapWelcome ==
    Event("w_wel", EphemeralKey, GIFT_WRAP_KIND, << <<"p", BotKey>> >>, Cipher,
          Inner("u_wel", PeerKey, VECTOR_MLS_WELCOME_KIND, << <<"h", G2>> >>, Cipher))
WrapWelcomeNoHint ==
    Event("w_wel0", EphemeralKey, GIFT_WRAP_KIND, << <<"p", BotKey>> >>, Cipher,
          Inner(NoId, PeerKey, VECTOR_MLS_WELCOME_KIND, << <<"e", G1>> >>, Cipher))

GiftWraps == {WrapDm, WrapDmEmpty, WrapOpaque, WrapGroup, WrapWelcome, WrapWelcomeNoHint}

\* Events the DM subscription delivers (kinds 4 and 14 with a `p` tag of the bot).
DmOk ==
    Event("d_ok", PeerKey, EncryptedDirectMessage, << <<"p", BotKey>> >>, Cipher,
          Inner(NoId, PeerKey, EncryptedDirectMessage, <<>>, Hello))
DmBad ==
    Event("d_bad", PeerKey, EncryptedDirectMessage, << <<"p", BotKey>> >>, Cipher, NoInner)
DmOther ==
    Event("d_14", PeerKey, PrivateDirectMessage, << <<"p", BotKey>> >>, Hello, NoInner)

DirectMessages == {DmOk, DmBad, DmOther}

\* Group wrappers (kind 444) and chat messages (kind 9).
WrapperG1 ==
    Event("x_g1", PeerKey, VECTOR_MLS_GROUP_WRAPPER_KIND, << <<"h", G1>> >>, Cipher, NoInner)
WrapperG2 ==
    Event("x_g2", PeerKey, VECTOR_MLS_GROUP_WRAPPER_KIND, << <<"h", G2>> >>, Cipher, NoInner)
WrapperG2Again ==
    Event("x_g2b", BotKey, VECTOR_MLS_GROUP_WRAPPER_KIND,
          << <<"p", BotKey>>, <<"H", G2>> >>, Cipher, NoInner)
WrapperHex ==
    Event("x_hex", PeerKey, VECTOR_MLS_GROUP_WRAPPER_KIND,
          << <<"d", Hex32>>, <<"p", BotKey>> >>, Cipher, NoInner)
WrapperNoGroup ==
    Event("x_no", PeerKey, VECTOR_MLS_GROUP_WRAPPER_KIND,
          << <<"p", BotKey>>, <<"d", G1>> >>, Cipher, NoInner)
ChatSelf ==
    Event("c_self", BotKey, ChatMessage, << <<"h", G1>> >>, Hello, NoInner)
ChatCommand ==
    Event("c_cmd", PeerKey, ChatMessage, << <<"h", G2>> >>, BangPing, NoInner)
ChatAgain ==
    Event("c_cmd2", PeerKey, ChatMessage, << <<"h", G1>> >>, BangPingPadded, NoInner)
ChatNoGroup ==
    Event("c_no", PeerKey, ChatMessage, << <<"p", BotKey>> >>, AtBobHi, NoInner)

GroupEvents ==
    {WrapperG1, WrapperG2, WrapperG2Again, WrapperHex, WrapperNoGroup,
     ChatSelf, ChatCommand, ChatAgain, ChatNoGroup}

AllEvents == GiftWraps \cup DirectMessages \cup GroupEvents

EventIds == {e.id : e \in AllEvents}

\* What the adapter's decryptGroupWrapper may settle with.
DecryptNull == [res |-> "null", groupId |-> Undefined, senderPubkey |-> Undefined,
                content |-> Empty, kind |-> 0]
DecryptThrow == [res |-> "throw", groupId |-> Undefined, senderPubkey |-> Undefined,
                 content |-> Empty, kind |-> 0]
DecryptCommand == [res |-> "value", groupId |-> Empty, senderPubkey |-> Empty,
                   content |-> BangPing, kind |-> 0]
DecryptHello == [res |-> "value", groupId |-> G3, senderPubkey |-> BotKey,
                 content |-> Hello, kind |-> ChatMessage]
DecryptEmpty == [res |-> "value", groupId |-> G3, senderPubkey |-> PeerKey,
                 content |-> Empty, kind |-> ChatMessage]
DecryptOutcomes == {DecryptNull, DecryptThrow, DecryptCommand, DecryptHello, DecryptEmpty}

\* What processWelcome may settle with: a throw, null, or a result's groupId.
WelcomeOutcomes == {<<"throw">>, <<"null">>, Undefined, G2, G3Padded}

\* What a profile lookup (pool.get of the kind-0 event) may settle with.
LookupOutcomes == {"data", "nothing", "throw"}

\* bot.name and bot.displayName of the connected bot
botName == Bob
botDisplayName == <<"B", "b">>

\* if (tag[0] === tagName && typeof tag[1] === 'string') return tag[1]
\*   -- mutated: no tag is ever returned
findFirstTagValue_None(tags, tagName) == Undefined

\* findFirstTagValue(eventLike, tagName)
findFirstTagValue(tags, tagName) ==
    LET hits == {i \in 1..Len(tags) : Len(tags[i]) >= 2 /\ tags[i][1] = tagName}
    IN  IF hits = {} THEN Undefined
        ELSE tags[CHOOSE i \in hits : \A j \in hits : i <= j][2]

\* the loop of extractGroupIdFromEvent over every tag's value
firstHexValue(tags) ==
    LET hits == {i \in 1..Len(tags) : Len(tags[i]) >= 2 /\ isHexId(tags[i][2])}
    IN  IF hits = {} THEN Undefined
        ELSE tags[CHOOSE i \in hits : \A j \in hits : i <= j][2]

\* extractGroupIdFromEvent(event); Undefined when nothing matches
extractGroupIdFromEvent(tags) ==
    LET lowerH == findFirstTagValue(tags, "h")
        fromH == IF lowerH # Undefined THEN lowerH ELSE findFirstTagValue(tags, "H")
        fromD == findFirstTagValue(tags, "d")
    IN  IF truthy(fromH) THEN fromH
        ELSE IF truthy(fromD) /\ isHexId(fromD) THEN fromD
        ELSE firstHexValue(tags)

\* normalizeRumorWrapperEvent(rumor, outerEvent)
normalizeRumorWrapperEvent(rumor, outerEvent) ==
    Event(IF rumor.id # NoId THEN rumor.id ELSE outerEvent.id,
          orElse(rumor.pubkey, outerEvent.pubkey),
          rumor.kind, rumor.tags, rumor.content, NoInner)

\* The mutable state of a client and what a handler emitted so far.
Client ==
    [joined |-> joinedGroupIds, known |-> knownGroupIds, observed |-> observedGroupIds,
     seen |-> seenMessageIds, cache |-> profileCache, lookups |-> pendingLookups,
     decrypts |-> pendingDecrypts, welcomes |-> pendingWelcomes,
     count |-> messageCount, evicted |-> everEvicted, calls |-> decryptCalls,
     invoked |-> emitCalls, released |-> poolReleased, result |-> "none",
     notes |-> <<>>]

\* The call returns `value` to its caller, or throws the error `value`.
finish(c, value) == [c EXCEPT !.result = value]

emit(c, note) == [c EXCEPT !.notes = Append(@, note)]

NoOverride ==
    [given |-> FALSE, conversationId |-> Undefined, groupId |-> Undefined,
     isGroup |-> FALSE, botInGroup |-> FALSE, directedToBot |-> FALSE]

GroupOverride(groupId, botInGroup, directedToBot) ==
    [given |-> TRUE, conversationId |-> groupId, groupId |-> groupId,
     isGroup |-> TRUE, botInGroup |-> botInGroup, directedToBot |-> directedToBot]

\* The `message` notification emitMessage builds, but for its displayName.
Message(pubkey, kind, id, content, wrapped, override) ==
    [type |-> "message",
     id |-> id,
     pubkey |-> pubkey,
     conversationId |-> IF override.given THEN override.conversationId ELSE pubkey,
     groupId |-> override.groupId,
     isGroup |-> override.isGroup,
     botInGroup |-> IF override.isGroup THEN override.botInGroup ELSE FALSE,
     directedToBot |-> IF override.isGroup THEN override.directedToBot ELSE TRUE,
     origin |-> IF override.isGroup THEN "group" ELSE "dm",
     kind |-> kind,
     wrapped |-> wrapped,
     content |-> content,
     self |-> (pubkey = BotKey),
     displayName |-> "undefined"]

\* this.emit('message', ...) with the profile getProfile returned
emitWithProfile(c, message, profile) ==
    LET note == [message EXCEPT
                     !.displayName = IF profile = "data" THEN "name" ELSE "undefined"]
    IN  [emit(c, note) EXCEPT !.count[message.id] = @ + 1]

\* Set.prototype.add on the insertion-ordered set of seen ids
setAdd(seen, id) == IF id \in SeqRange(seen) THEN seen ELSE Append(seen, id)

\* if (this.seenMessageIds.has(rawEvent.id))   -- mutated: the cache is not asked
alreadySeen_Never(seen, id) == FALSE

alreadySeen(seen, id) == id \in SeqRange(seen)

\* const oldest = this.seenMessageIds.values().next().value; delete(oldest)
\*   -- mutated: the id that was just inserted is deleted
evictOldest_Newest(added) == SubSeq(added, 1, Len(added) - 1)

evictOldest(added) == Tail(added)

\* emitMessage up to its await: the dedup guard, the insertion with its
\* eviction of the oldest id, and getProfile, which answers from the cache or
\* starts a lookup.
emitMessage(c, pubkey, kind, id, content, wrapped, override) ==
    IF alreadySeen(c.seen, id) THEN [c EXCEPT !.invoked[id] = @ + 1]
    ELSE LET added == setAdd(c.seen, id)
             over == Len(added) > MaxSeen
             c1 == [c EXCEPT !.invoked[id] = @ + 1,
                             !.seen = IF over THEN evictOldest(added) ELSE added,
                             !.evicted = IF over
                                         THEN @ \cup (SeqRange(added)
                                                         \ SeqRange(evictOldest(added)))
                                         ELSE @]
             message == Message(pubkey, kind, id, content, wrapped, override)
         IN  IF c1.cache[pubkey] # "none"
             THEN emitWithProfile(c1, message, c1.cache[pubkey])
             ELSE [c1 EXCEPT !.lookups = Append(@, message)]

\* if (this.joinedGroupIds.has(groupId)) return true
\*   -- mutated: only the sender is asked
isBotInGroup_SenderOnly(c, groupId, event) == event.pubkey = BotKey

\* isBotInGroup(bot, groupId, event): the answer, and the client afterwards
isBotInGroup(c, groupId, event) ==
    \/ event.pubkey = BotKey
    \/ groupId \in c.joined
    \/ groupId \in configuredGroupIds

\* this.joinedGroupIds.add(groupId)   -- mutated: the set is replaced by the id
afterIsBotInGroup_Replaces(c, groupId, event) ==
    IF event.pubkey = BotKey THEN [c EXCEPT !.joined = {groupId}] ELSE c

afterIsBotInGroup(c, groupId, event) ==
    IF event.pubkey = BotKey THEN [c EXCEPT !.joined = @ \cup {groupId}] ELSE c

\* isGroupTracked(groupId)
\* isGroupTracked   -- mutated: a group that was only observed counts as tracked
isGroupTracked_Observed(c, groupId) ==
    \/ groupId \in c.joined
    \/ groupId \in configuredGroupIds
    \/ groupId \in c.known
    \/ groupId \in c.observed

isGroupTracked(c, groupId) ==
    \/ groupId \in c.joined
    \/ groupId \in configuredGroupIds
    \/ groupId \in c.known

\* if (!this.isGroupTracked(groupId)) return   -- mutated: every group is handled
untrackedIgnored_Never(c, groupId) == FALSE

untrackedIgnored(c, groupId) == ~isGroupTracked(c, groupId)

\* handleGroupMessage(bot, event)
handleGroupMessage(c, event) ==
    LET expectedKind == IF vectorOnly THEN VECTOR_MLS_GROUP_WRAPPER_KIND ELSE ChatMessage
        groupId == extractGroupIdFromEvent(event.tags)
    IN  IF event.kind # expectedKind THEN c
        ELSE IF ~truthy(groupId)
        THEN emit(c, [type |-> "group_wrapper_unresolved", eventId |-> event.id,
                      sender |-> event.pubkey])
        ELSE LET c1 == [c EXCEPT !.observed = @ \cup {groupId}]
             IN  IF vectorOnly
                 THEN IF untrackedIgnored(c1, groupId) THEN c1
                      ELSE LET c2 == IF groupId \notin c1.known
                                     THEN emit([c1 EXCEPT !.known = @ \cup {groupId}],
                                               [type |-> "group_discovered",
                                                groupId |-> groupId, eventId |-> event.id,
                                                sender |-> event.pubkey, source |-> "live"])
                                     ELSE c1
                               c3 == emit(c2, [type |-> "group_wrapper",
                                               groupId |-> groupId, eventId |-> event.id])
                           IN  IF mlsAdapter
                               THEN [c3 EXCEPT
                                        !.calls[event.id] = @ + 1,
                                        !.decrypts = Append(@, [event |-> event,
                                                                groupId |-> groupId])]
                               ELSE c3
                 ELSE LET botInGroup == isBotInGroup(c1, groupId, event)
                          c2 == afterIsBotInGroup(c1, groupId, event)
                          directedToBot ==
                              isGroupContentDirectedToBot(BotKey, botName, botDisplayName,
                                                          event.content, botInGroup,
                                                          event.tags)
                      IN  emitMessage(c2, event.pubkey, event.kind, event.id,
                                      event.content, FALSE,
                                      GroupOverride(groupId, botInGroup, directedToBot))

\* emitMessage(bot, rumor.pubkey, rumor.kind, event, rumor.content, true)
\*   -- mutated: the message is not marked as wrapped
wrappedFlag_False == FALSE

wrappedFlag == TRUE

\* catch (error) { this.log('Ignored non-decryptable gift-wrap event') }
\*   -- mutated: the failure is emitted as `error`
unwrapFailed_Reported(c) == emit(c, [type |-> "error", from |-> "unwrapEvent"])

unwrapFailed(c) == c

\* handleGiftWrap(bot, event, emitDirectMessages)
handleGiftWrap(c, event, emitDirectMessages) ==
    LET rumor == event.inner
    IN  IF ~rumor.ok THEN unwrapFailed(c)
        ELSE IF emitDirectMessages /\ rumor.kind = PrivateDirectMessage
                /\ truthy(rumor.content)
        THEN emitMessage(c, rumor.pubkey, rumor.kind, event.id, rumor.content,
                         wrappedFlag, NoOverride)
        ELSE IF rumor.kind = VECTOR_MLS_GROUP_WRAPPER_KIND
        THEN handleGroupMessage(c, normalizeRumorWrapperEvent(rumor, event))
        ELSE IF rumor.kind = VECTOR_MLS_WELCOME_KIND
        THEN LET groupIdHint == findFirstTagValue(rumor.tags, "h")
                 c1 == IF truthy(groupIdHint)
                       THEN emit([c EXCEPT !.known = @ \cup {groupIdHint},
                                           !.joined = @ \cup {groupIdHint}],
                                 [type |-> "group_discovered", groupId |-> groupIdHint,
                                  eventId |-> event.id, sender |-> rumor.pubkey,
                                  source |-> "welcome"])
                       ELSE c
                 c2 == IF mlsAdapter
                       THEN [c1 EXCEPT !.welcomes =
                                Append(@, [eventId |-> event.id, sender |-> rumor.pubkey,
                                           replayed |-> ~emitDirectMessages])]
                       ELSE c1
             IN  emit(c2, [type |-> "mls_welcome", eventId |-> event.id])
        ELSE c

\* catch (error) { ...; this.emit('error', error) }
\*   -- mutated: the failed decryption is not reported
handleDirectMessage_Silent(c, event) ==
    IF event.kind # EncryptedDirectMessage THEN c
    ELSE IF ~event.inner.ok THEN c
    ELSE emitMessage(c, event.pubkey, event.kind, event.id, event.inner.content,
                     FALSE, NoOverride)

\* handleDirectMessage(bot, event)
handleDirectMessage(c, event) ==
    IF event.kind # EncryptedDirectMessage THEN c
    ELSE IF ~event.inner.ok
    THEN emit(c, [type |-> "error", from |-> "nip04.decrypt"])
    ELSE emitMessage(c, event.pubkey, event.kind, event.id, event.inner.content,
                     FALSE, NoOverride)

\* ------------------------------------------------- group id extraction alone

\* The tags an event may carry: group tags in either case, one without a
\* value (the empty string), `d` tags with and without a hex identifier, a
\* hex identifier under another key, a mention, and a tag without a value.
HexUpper == [i \in 1..32 |-> IF i % 2 = 0 THEN "F" ELSE "0"]

TagPool ==
    { <<"h", G1>>, <<"h", Empty>>, <<"H", G2>>, <<"d", Hex32>>, <<"d", G1>>,
      <<"e", HexUpper>>, <<"p", BotKey>>, <<"p">> }

ExtractTagLists == SeqsUpTo(TagPool, MaxTags)

\* A wrapper with the tags `tags`.
Tagged(tags) == Event("x_no", PeerKey, VECTOR_MLS_GROUP_WRAPPER_KIND, tags, Cipher, NoInner)

ExtInit ==
    \E tags \in ExtractTagLists :
       extraction = [tags |-> tags, handled |-> FALSE, groupId |-> Undefined,
                     notes |-> <<>>, kept |-> TRUE]

ExtOff ==
    extraction = [tags |-> <<>>, handled |-> FALSE, groupId |-> Undefined,
                  notes |-> <<>>, kept |-> TRUE]

\* handleGroupMessage is handed the wrapper: the group id it extracts, what it
\* emits, and whether it left the client's sets and calls as they were.
Extract ==
    /\ ~extraction.handled
    /\ LET c == handleGroupMessage(Client, Tagged(extraction.tags))
       IN  extraction' =
              [extraction EXCEPT
                  !.handled = TRUE,
                  !.groupId = extractGroupIdFromEvent(extraction.tags),
                  !.notes = c.notes,
                  !.kept = ([c EXCEPT !.notes = <<>>] = Client)]
    /\ emitted' = <<>>
    /\ UNCHANGED notExt

\* ------------------------------------------------------- the client's steps

\* The fields a handler may change take the values of `c`, and the handler's
\* notifications are the step's.
Install(c) ==
    /\ joinedGroupIds' = c.joined
    /\ knownGroupIds' = c.known
    /\ observedGroupIds' = c.observed
    /\ seenMessageIds' = c.seen
    /\ profileCache' = c.cache
    /\ pendingLookups' = c.lookups
    /\ pendingDecrypts' = c.decrypts
    /\ pendingWelcomes' = c.welcomes
    /\ messageCount' = c.count
    /\ everEvicted' = c.evicted
    /\ decryptCalls' = c.calls
    /\ emitCalls' = c.invoked
    /\ poolReleased' = c.released
    /\ callResult' = c.result
    /\ emitted' = c.notes

RemoveAt(seq, i) == SubSeq(seq, 1, i - 1) \o SubSeq(seq, i + 1, Len(seq))

RECURSIVE handleEach(_, _)
\* for (const event of giftWrapEvents) this.handleGiftWrap(bot, event, false)
handleEach(c, events) ==
    IF events = <<>> THEN c
    ELSE handleEach(handleGiftWrap(c, Head(events), FALSE), Tail(events))

\* The group ids an adapter reports are trimmed; the new ones become known and
\* joined, with a discovery notification each.
RECURSIVE mergeAdapterGroups(_, _, _)
mergeAdapterGroups(c, groups, eventId) ==
    IF groups = <<>> THEN c
    ELSE LET normalized == trim(Head(groups))
             c1 == IF normalized # Empty /\ normalized \notin c.known
                   THEN emit([c EXCEPT !.known = @ \cup {normalized},
                                       !.joined = @ \cup {normalized}],
                             [type |-> "group_discovered", groupId |-> normalized,
                              eventId |-> eventId, sender |-> BotKey,
                              source |-> "adapter"])
                   ELSE c
         IN  mergeAdapterGroups(c1, Tail(groups), eventId)

\* if (vectorOnly && !this.isGroupTracked(groupId)) continue
\*   -- mutated: the history loop does not ask whether the group is tracked
historySkips_Never(c, groupId) == FALSE

historySkips(c, groupId) == vectorOnly /\ ~isGroupTracked(c, groupId)

\* The loop of bootstrapKnownGroups over the group events of the history:
\* the client afterwards and, in `discovered`, the count it reports.
RECURSIVE discoverFromHistory(_, _)
discoverFromHistory(r, events) ==
    IF events = <<>> THEN r
    ELSE LET event == Head(events)
             groupId == extractGroupIdFromEvent(event.tags)
             c == r.client
             c1 == [c EXCEPT !.observed = @ \cup {groupId}]
             r1 == IF ~truthy(groupId) THEN r
                   ELSE IF historySkips(c1, groupId)
                   THEN [r EXCEPT !.client = c1]
                   ELSE IF groupId \notin c1.known
                   THEN [client |-> emit([c1 EXCEPT !.known = @ \cup {groupId}],
                                         [type |-> "group_discovered",
                                          groupId |-> groupId, eventId |-> event.id,
                                          sender |-> event.pubkey, source |-> "history"]),
                         discovered |-> r.discovered + 1]
                   ELSE [r EXCEPT !.client = c1]
         IN  discoverFromHistory(r1, Tail(events))

\* setupSubscriptions, startConnectionMonitor and the `ready` notification, which
\* connect() runs without a pause once bootstrapKnownGroups has returned.
finishConnect(c) ==
    /\ connectPc' = "ready"
    /\ giftWrapSubscription' = "open"
    /\ dmSubscription' = "open"
    /\ groupSubscription' =
          IF ~autoDiscoverGroups /\ c.known = {} THEN "none" ELSE "open"
    /\ groupFilter' = c.known
    /\ startConnectionMonitor
    /\ Install(emit(c, [type |-> "ready"]))

staySubscribed ==
    UNCHANGED <<giftWrapSubscription, dmSubscription, groupSubscription, groupFilter,
                connectionMonitor, connectionMonitorStartedAt, monitorLastFire,
                activeTimers>>

\* bootstrapKnownGroups is entered: it returns at once unless the history is asked for.
enterBootstrap(c) ==
    IF discoverGroupsFromHistory
    THEN connectPc' = "boot_connect" /\ staySubscribed /\ Install(c)
    ELSE finishConnect(c)

restOfMonitor ==
    UNCHANGED <<reconnectIntervalMs, shouldReconnect, now, poolStatus, connectionState,
                relayDownStreak, relayUpStreak, relayLastReconnectAttemptAt,
                reconnectingRelays, prevObserved, ensureRelayPending, lastTransition>>

fixedFields == UNCHANGED <<optVars, configuredGroupIds, sends, pendingSends>>

\* The events handed to the client so far are counted, to bound the model.
handed(events) ==
    /\ deliveries + Len(events) <= deliveryBudget
    /\ deliveries' = deliveries + Len(events)
    /\ UNCHANGED deliveryLog

MissingPrivateKey == "Missing private key for bot client"
NoRelays == "At least one relay is required"
BotCreationFailed == "VectorBot.new failed"
NotConnected == "Bot is not connected"
MissingGroupId == "Missing groupId"
SendFailed == "send failed"

ErrorMessages ==
    {MissingPrivateKey, NoRelays, BotCreationFailed, NotConnected, MissingGroupId,
     SendFailed}

\* connect(): the two configuration guards, then VectorBot.new is awaited.
Connect ==
    /\ connectPc = "new"
    /\ connectPc' = IF optConfig = "ok" THEN "creating" ELSE "thrown"
    /\ Install(IF optConfig = "nokey" THEN finish(Client, MissingPrivateKey)
               ELSE IF optConfig = "norelays" THEN finish(Client, NoRelays)
               ELSE Client)
    /\ staySubscribed /\ restOfMonitor /\ fixedFields /\ UNCHANGED <<deliveries, deliveryLog>>
    /\ UNCHANGED <<bot>>
    /\ UNCHANGED notCli

\* VectorBot.new settles; with an adapter, ensureKeyPackage is asked next.
BotCreated ==
    /\ connectPc = "creating"
    /\ \E ok \in BOOLEAN :
          /\ bot' = ok
          /\ IF ~ok
             THEN /\ connectPc' = "thrown" /\ staySubscribed
                  /\ Install(finish(Client, BotCreationFailed))
             ELSE IF mlsAdapter
             THEN connectPc' = "keypackage" /\ staySubscribed /\ Install(Client)
             ELSE enterBootstrap(Client)
    /\ restOfMonitor /\ fixedFields /\ UNCHANGED <<deliveries, deliveryLog>>
    /\ UNCHANGED notCli

\* adapter.ensureKeyPackage settles.
KeyPackageSettled ==
    /\ connectPc = "keypackage"
    /\ \E ok \in BOOLEAN :
          enterBootstrap(emit(Client, IF ok THEN [type |-> "mls_keypackage"]
                                      ELSE [type |-> "error", from |-> "ensureKeyPackage"]))
    /\ restOfMonitor /\ fixedFields /\ UNCHANGED <<deliveries, deliveryLog>>
    /\ UNCHANGED <<bot>>
    /\ UNCHANGED notCli

\* await Promise.allSettled(ensureRelay...) of the bootstrap settles.
BootConnectSettled ==
    /\ connectPc = "boot_connect"
    /\ connectPc' = "boot_giftwraps"
    /\ Install(Client)
    /\ staySubscribed /\ restOfMonitor /\ fixedFields /\ UNCHANGED <<deliveries, deliveryLog>>
    /\ UNCHANGED <<bot>>
    /\ UNCHANGED notCli

\* A gift-wrap query of the bootstrap settles (the second one is made when the
\* first returned nothing); its events are handled without emitting DMs.
BootGiftWrapsReturned(events) ==
    /\ connectPc \in {"boot_giftwraps", "boot_giftwraps2"}
    /\ handed(events)
    /\ IF events = <<>> /\ connectPc = "boot_giftwraps"
       THEN connectPc' = "boot_giftwraps2" /\ staySubscribed /\ Install(Client)
       ELSE /\ connectPc' = IF mlsAdapter THEN "boot_sync" ELSE "boot_wrappers"
            /\ staySubscribed
            /\ Install(handleEach(Client, events))
    /\ restOfMonitor /\ fixedFields
    /\ UNCHANGED <<bot>>
    /\ UNCHANGED notCli

\* The query throws: the catch block of bootstrapKnownGroups, then the rest of
\* connect().
BootGiftWrapsFailed ==
    /\ connectPc \in {"boot_giftwraps", "boot_giftwraps2"}
    /\ finishConnect(emit(Client, [type |-> "error", from |-> "bootstrap"]))
    /\ UNCHANGED <<deliveries, deliveryLog>>
    /\ restOfMonitor /\ fixedFields
    /\ UNCHANGED <<bot>>
    /\ UNCHANGED notCli

BootGiftWrapsSettled ==
    \/ \E events \in SeqsUpTo(GiftWraps, MaxHistory) : BootGiftWrapsReturned(events)
    \/ BootGiftWrapsFailed

\* What adapter.syncWelcomes and adapter.bootstrapGroups may report.
SyncReports == {<<>>, <<G3Padded, Blank, G1>>}

\* adapter.syncWelcomes settles: with a throw, with null, or with a report.
BootSyncSettled ==
    /\ connectPc = "boot_sync"
    /\ connectPc' = "boot_groups"
    /\ \/ Install(emit(emit(Client, [type |-> "mls_welcome_process_failed"]),
                       [type |-> "error", from |-> "syncWelcomes"]))
       \/ Install(emit(Client, [type |-> "mls_welcome_sync", groups |-> <<>>]))
       \/ \E groups \in SyncReports, processed \in 0..1 :
             LET c1 == emit(Client, [type |-> "mls_welcome_sync", groups |-> groups])
                 c2 == mergeAdapterGroups(c1, groups, "adapter-sync-welcomes")
             IN  Install(IF processed > 0 \/ Len(groups) > 0
                         THEN emit(c2, [type |-> "mls_welcome_processed"])
                         ELSE c2)
    /\ staySubscribed /\ restOfMonitor /\ fixedFields /\ UNCHANGED <<deliveries, deliveryLog>>
    /\ UNCHANGED <<bot>>
    /\ UNCHANGED notCli

\* adapter.bootstrapGroups settles.
BootGroupsSettled ==
    /\ connectPc = "boot_groups"
    /\ connectPc' = "boot_wrappers"
    /\ \/ Install(emit(Client, [type |-> "error", from |-> "bootstrapGroups"]))
       \/ \E groups \in SyncReports :
             Install(mergeAdapterGroups(Client, groups, "adapter-bootstrap"))
    /\ staySubscribed /\ restOfMonitor /\ fixedFields /\ UNCHANGED <<deliveries, deliveryLog>>
    /\ UNCHANGED <<bot>>
    /\ UNCHANGED notCli

\* The events of kind groupKind the relays hold.
HistoryGroupEvents ==
    {e \in GroupEvents :
        e.kind = IF vectorOnly THEN VECTOR_MLS_GROUP_WRAPPER_KIND ELSE ChatMessage}

\* A group-event query of the bootstrap returns `events`: the discovery loop,
\* the summary, and the rest of connect().
BootWrappersReturned(events) ==
    /\ connectPc \in {"boot_wrappers", "boot_wrappers2"}
    /\ IF events = <<>> /\ connectPc = "boot_wrappers"
       THEN connectPc' = "boot_wrappers2" /\ staySubscribed /\ Install(Client)
       ELSE LET r == discoverFromHistory([client |-> Client, discovered |-> 0], events)
            IN  finishConnect(
                    emit(emit(r.client, [type |-> "group_bootstrap_debug"]),
                         [type |-> "group_bootstrap_complete",
                          discovered |-> r.discovered,
                          knownGroupIds |-> r.client.known]))
    /\ handed(events)
    /\ restOfMonitor /\ fixedFields
    /\ UNCHANGED <<bot>>
    /\ UNCHANGED notCli

\* catch (error) { ... this.emit('error', error) }
\*   -- mutated: the error is emitted and thrown on, and connect() rejects
BootWrappersFailed_Aborts ==
    /\ connectPc \in {"boot_wrappers", "boot_wrappers2"}
    /\ connectPc' = "thrown"
    /\ staySubscribed
    /\ Install(finish(emit(Client, [type |-> "error", from |-> "bootstrap"]),
                       BotCreationFailed))
    /\ restOfMonitor /\ fixedFields /\ UNCHANGED <<deliveries, deliveryLog>>
    /\ UNCHANGED <<bot>>
    /\ UNCHANGED notCli

\* The query throws: the catch block of bootstrapKnownGroups, then the rest of
\* connect().
BootWrappersFailed ==
    /\ connectPc \in {"boot_wrappers", "boot_wrappers2"}
    /\ finishConnect(emit(Client, [type |-> "error", from |-> "bootstrap"]))
    /\ restOfMonitor /\ fixedFields /\ UNCHANGED <<deliveries, deliveryLog>>
    /\ UNCHANGED <<bot>>
    /\ UNCHANGED notCli

BootWrappersSettled ==
    \/ \E events \in SeqsUpTo(HistoryGroupEvents, MaxHistory) : BootWrappersReturned(events)
    \/ BootWrappersFailed

\* A subscription hands `event` to its handler.
liveStep(event) ==
    /\ deliveries < deliveryBudget
    /\ deliveries' = deliveries + 1
    /\ deliveryLog' = IF logDeliveries THEN Append(deliveryLog, event.id) ELSE deliveryLog
    /\ UNCHANGED <<optVars, configuredGroupIds, sends, pendingSends, bot, connectPc>>
    /\ staySubscribed /\ restOfMonitor
    /\ UNCHANGED notCli

\* The gift-wrap subscription delivers `event`.
DeliverGiftWrapOf(event) ==
    /\ giftWrapSubscription = "open"
    /\ Install(handleGiftWrap(Client, event, TRUE))
    /\ liveStep(event)

DeliverGiftWrap == \E event \in GiftWraps : DeliverGiftWrapOf(event)

\* The DM subscription delivers `event`.
DeliverDirectMessageOf(event) ==
    /\ dmSubscription = "open"
    /\ Install(handleDirectMessage(Client, event))
    /\ liveStep(event)

DeliverDirectMessage == \E event \in DirectMessages : DeliverDirectMessageOf(event)

\* The relays' side of the group filter: the kind, and the '#h' values unless
\* every group is asked for.
matchesGroupFilter(event) ==
    /\ event.kind = IF vectorOnly THEN VECTOR_MLS_GROUP_WRAPPER_KIND ELSE ChatMessage
    /\ \/ autoDiscoverGroups
       \/ \E i \in 1..Len(event.tags) :
             /\ Len(event.tags[i]) >= 2
             /\ event.tags[i][1] = "h"
             /\ event.tags[i][2] \in groupFilter

\* The group subscription delivers `event`.
DeliverGroupEventOf(event) ==
    /\ groupSubscription = "open"
    /\ matchesGroupFilter(event)
    /\ Install(handleGroupMessage(Client, event))
    /\ liveStep(event)

DeliverGroupEvent == \E event \in GroupEvents : DeliverGroupEventOf(event)

settleStep ==
    /\ UNCHANGED <<optVars, configuredGroupIds, deliveries, deliveryLog, sends, pendingSends, bot,
                   connectPc>>
    /\ staySubscribed /\ restOfMonitor
    /\ UNCHANGED notCli

\* this.profileCache.set(pubkey, {})   -- mutated: a failed lookup caches nothing
LookupSettledOf_FailureUncached(i, outcome) ==
    /\ i \in 1..Len(pendingLookups)
    /\ LET message == pendingLookups[i]
           c1 == [Client EXCEPT !.lookups = RemoveAt(@, i)]
           c2 == IF outcome = "throw"
                 THEN emit(c1, [type |-> "error", from |-> "getProfile"])
                 ELSE c1
           profile == IF outcome = "data" THEN "data" ELSE "empty"
           c3 == IF outcome = "throw" THEN c2
                 ELSE [c2 EXCEPT !.cache[message.pubkey] = profile]
       IN  Install(emitWithProfile(c3, message, profile))
    /\ settleStep

\* The lookup of the i-th waiting emitMessage call settles: getProfile caches
\* what it got and emitMessage goes on to emit the message.
LookupSettledOf(i, outcome) ==
    /\ i \in 1..Len(pendingLookups)
    /\ LET message == pendingLookups[i]
           c1 == [Client EXCEPT !.lookups = RemoveAt(@, i)]
           c2 == IF outcome = "throw"
                 THEN emit(c1, [type |-> "error", from |-> "getProfile"])
                 ELSE c1
           profile == IF outcome = "data" THEN "data" ELSE "empty"
           c3 == [c2 EXCEPT !.cache[message.pubkey] = profile]
       IN  Install(emitWithProfile(c3, message, profile))
    /\ settleStep

LookupSettled ==
    \E i \in 1..Len(pendingLookups), outcome \in LookupOutcomes : LookupSettledOf(i, outcome)

\* const resolvedGroupId = decrypted.groupId || groupId
\*   -- mutated: the wrapper's group id whatever the adapter names
resolveGroupId_Wrapper(decrypted, groupId) == groupId

resolveGroupId(decrypted, groupId) == orElse(decrypted.groupId, groupId)

\* adapter.decryptGroupWrapper settles: the then and catch callbacks.
DecryptSettledOf(i, decrypted) ==
    /\ i \in 1..Len(pendingDecrypts)
    /\ LET event == pendingDecrypts[i].event
              groupId == pendingDecrypts[i].groupId
              c1 == [Client EXCEPT !.decrypts = RemoveAt(@, i)]
              resolvedGroupId == resolveGroupId(decrypted, groupId)
              sender == orElse(decrypted.senderPubkey, event.pubkey)
              c2 == emit(c1, [type |-> "mls_wrapper_decrypt_hit",
                              groupId |-> resolvedGroupId, eventId |-> event.id,
                              sender |-> sender])
              c3 == [c2 EXCEPT !.known = @ \cup {resolvedGroupId},
                               !.joined = @ \cup {resolvedGroupId}]
              directedToBot ==
                  isGroupContentDirectedToBot(BotKey, botName, botDisplayName,
                                              decrypted.content, TRUE, event.tags)
          IN  IF decrypted.res = "throw"
              THEN Install(emit(emit(c1, [type |-> "mls_wrapper_decrypt_failed",
                                          groupId |-> groupId, eventId |-> event.id]),
                                [type |-> "error", from |-> "decryptGroupWrapper"]))
              ELSE IF decrypted.res = "null" \/ ~truthy(decrypted.content)
              THEN Install(emit(c1, [type |-> "mls_wrapper_decrypt_miss",
                                     groupId |-> groupId, eventId |-> event.id]))
              ELSE Install(emitMessage(
                       c3, sender,
                       IF decrypted.kind = 0 THEN ChatMessage ELSE decrypted.kind,
                       event.id, decrypted.content, FALSE,
                       GroupOverride(resolvedGroupId, TRUE, directedToBot)))
    /\ settleStep

DecryptSettled ==
    \E i \in 1..Len(pendingDecrypts), decrypted \in DecryptOutcomes :
       DecryptSettledOf(i, decrypted)

\* adapter.processWelcome settles: the then and catch callbacks.
WelcomeSettledOf(i, result) ==
    /\ i \in 1..Len(pendingWelcomes)
    /\ LET welcome == pendingWelcomes[i]
              c1 == [Client EXCEPT !.welcomes = RemoveAt(@, i)]
              c2 == emit(c1, [type |-> "mls_welcome_processed"])
              groupId == IF result \in {<<"null">>, Undefined} THEN Empty ELSE trim(result)
          IN  IF result = <<"throw">>
              THEN Install(emit(emit(c1, [type |-> "mls_welcome_process_failed"]),
                                [type |-> "error", from |-> "processWelcome"]))
              ELSE IF groupId = Empty \/ groupId \in c2.known
              THEN Install(c2)
              ELSE Install(emit([c2 EXCEPT !.known = @ \cup {groupId},
                                           !.joined = @ \cup {groupId}],
                                [type |-> "group_discovered", groupId |-> groupId,
                                 eventId |-> welcome.eventId,
                                 sender |-> welcome.sender,
                                 source |-> "welcome-adapter"]))
    /\ settleStep

WelcomeSettled ==
    \E i \in 1..Len(pendingWelcomes), result \in WelcomeOutcomes :
       WelcomeSettledOf(i, result)

\* The group ids sendGroupMessage is called with.
SendArguments == {G3Padded, Blank, Empty, G1}

\* if (!normalizedGroupId)   -- mutated: the id is asked before it is trimmed
groupIdMissing_Untrimmed(groupId) == groupId = Empty

groupIdMissing(groupId) == trim(groupId) = Empty

\* sendGroupMessage(groupId, message) up to its await.
SendGroupMessageOf(groupId) ==
    /\ sends < MaxSends
    /\ sends' = sends + 1
    /\ LET normalizedGroupId == trim(groupId)
       IN  IF ~bot
           THEN Install(finish(Client, NotConnected)) /\ UNCHANGED pendingSends
           ELSE IF groupIdMissing(groupId)
           THEN Install(finish(Client, MissingGroupId)) /\ UNCHANGED pendingSends
           ELSE IF vectorOnly /\ ~mlsAdapter
           THEN /\ Install(finish(emit(Client, [type |-> "error",
                                                from |-> "sendGroupMessage"]),
                                  "false"))
                /\ UNCHANGED pendingSends
           ELSE /\ Install(Client)
                /\ pendingSends' = Append(pendingSends, normalizedGroupId)
    /\ UNCHANGED <<optVars, configuredGroupIds, deliveries, deliveryLog, bot, connectPc>>
    /\ staySubscribed /\ restOfMonitor
    /\ UNCHANGED notCli

SendGroupMessage == \E groupId \in SendArguments : SendGroupMessageOf(groupId)

\* What the awaited send may give: adapter.sendGroupMessage true, false or a
\* throw; publishEvent (open mode) a return or a throw.
SendOutcomes == IF vectorOnly THEN {"true", "false", "throw"} ELSE {"true", "throw"}

\* if (!sent) return false   -- mutated: the answer of the adapter is not asked
sendSucceeded_Always(outcome) == outcome # "throw"

sendSucceeded(outcome) == outcome = "true"

\* The i-th send in flight settles with `outcome`.
SendSettledOf(i, outcome) ==
    /\ i \in 1..Len(pendingSends)
    /\ pendingSends' = RemoveAt(pendingSends, i)
    /\ Install(IF outcome = "throw" THEN finish(Client, SendFailed)
               ELSE IF sendSucceeded(outcome)
               THEN finish([Client EXCEPT !.joined = @ \cup {pendingSends[i]},
                                          !.known = @ \cup {pendingSends[i]}],
                           "true")
               ELSE finish(Client, "false"))
    /\ UNCHANGED <<optVars, configuredGroupIds, deliveries, deliveryLog, sends, bot, connectPc>>
    /\ staySubscribed /\ restOfMonitor
    /\ UNCHANGED notCli

SendSettled ==
    \E i \in 1..Len(pendingSends), outcome \in SendOutcomes : SendSettledOf(i, outcome)

\* subscription?.close('shutdown')   -- mutated: the subscription is left open
closed_Noop(subscription) == subscription

closed(subscription) == IF subscription = "open" THEN "closed" ELSE subscription

\* close()
Close ==
    /\ bot
    /\ \/ connectionMonitor
       \/ "open" \in {giftWrapSubscription, dmSubscription, groupSubscription}
    /\ activeTimers' = activeTimers - clearedTimers(connectionMonitor)
    /\ connectionMonitor' = FALSE
    /\ giftWrapSubscription' = closed(giftWrapSubscription)
    /\ dmSubscription' = closed(dmSubscription)
    /\ groupSubscription' = closed(groupSubscription)
    /\ Install([Client EXCEPT !.released = TRUE])
    /\ UNCHANGED <<groupFilter, connectionMonitorStartedAt, monitorLastFire>>
    /\ UNCHANGED <<optVars, configuredGroupIds, deliveries, deliveryLog, sends, pendingSends, bot,
                   connectPc>>
    /\ restOfMonitor
    /\ UNCHANGED notCli

\* close() while connect() is still awaiting the adapter or the bootstrap:
\* this.bot is set, no timer and no subscription exist yet, the pool is closed.
CloseDuringConnect ==
    /\ bot
    /\ connectPc # "ready"
    /\ ~Client.released
    /\ activeTimers' = activeTimers - clearedTimers(connectionMonitor)
    /\ connectionMonitor' = FALSE
    /\ giftWrapSubscription' = closed(giftWrapSubscription)
    /\ dmSubscription' = closed(dmSubscription)
    /\ groupSubscription' = closed(groupSubscription)
    /\ Install([Client EXCEPT !.released = TRUE])
    /\ UNCHANGED <<groupFilter, connectionMonitorStartedAt, monitorLastFire>>
    /\ UNCHANGED <<optVars, configuredGroupIds, deliveries, deliveryLog, sends, pendingSends, bot,
                   connectPc>>
    /\ restOfMonitor
    /\ UNCHANGED notCli

\* options.groupIds as given to the constructor.
GroupIdOptions == {<<>>, << <<" ", "g", "1">>, Blank >>}

\* The constructor's loop: the trimmed, non-empty ids.
configuredFrom(groupIds) ==
    {trim(groupIds[i]) : i \in {j \in 1..Len(groupIds) : trim(groupIds[j]) # Empty}}

\* A constructed client.
CliStateInit ==
    /\ bot = FALSE
    /\ observedGroupIds = {}
    /\ seenMessageIds = <<>>
    /\ profileCache = [k \in Pubkeys |-> "none"]
    /\ giftWrapSubscription = "none"
    /\ dmSubscription = "none"
    /\ groupSubscription = "none"
    /\ groupFilter = {}
    /\ connectPc = "new"
    /\ pendingLookups = <<>>
    /\ pendingDecrypts = <<>>
    /\ pendingWelcomes = <<>>
    /\ pendingSends = <<>>
    /\ messageCount = [id \in EventIds |-> 0]
    /\ everEvicted = {}
    /\ decryptCalls = [id \in EventIds |-> 0]
    /\ emitCalls = [id \in EventIds |-> 0]
    /\ deliveries = 0
    /\ deliveryLog = <<>>
    /\ sends = 0
    /\ poolReleased = FALSE
    /\ callResult = "none"

CliInit ==
    /\ \/ /\ optConfig = "ok"
          /\ vectorOnly \in BOOLEAN
          /\ mlsAdapter \in BOOLEAN
          /\ autoDiscoverGroups \in BOOLEAN
          /\ discoverGroupsFromHistory \in BOOLEAN
          /\ \E groupIds \in GroupIdOptions :
                /\ configuredGroupIds = configuredFrom(groupIds)
                /\ joinedGroupIds = configuredFrom(groupIds)
                /\ knownGroupIds = configuredFrom(groupIds)
       \/ /\ optConfig \in {"nokey", "norelays"}
          /\ vectorOnly = TRUE
          /\ mlsAdapter = FALSE
          /\ autoDiscoverGroups = FALSE
          /\ discoverGroupsFromHistory = FALSE
          /\ configuredGroupIds = {}
          /\ joinedGroupIds = {}
          /\ knownGroupIds = {}
    /\ deliveryBudget = MaxDeliveries
    /\ logDeliveries = FALSE
    /\ CliStateInit

CliOff ==
    /\ optConfig = "ok"
    /\ vectorOnly = TRUE
    /\ mlsAdapter = FALSE
    /\ autoDiscoverGroups = FALSE
    /\ discoverGroupsFromHistory = FALSE
    /\ configuredGroupIds = {}
    /\ joinedGroupIds = {}
    /\ knownGroupIds = {}
    /\ deliveryBudget = MaxDeliveries
    /\ logDeliveries = FALSE
    /\ CliStateInit

\* A client in either mode that asks for every group and for no history, and
\* is handed more events than its dedup cache holds.
CliDedupInit ==
    /\ optConfig = "ok"
    /\ vectorOnly \in BOOLEAN
    /\ mlsAdapter = FALSE
    /\ autoDiscoverGroups = TRUE
    /\ discoverGroupsFromHistory = FALSE
    /\ configuredGroupIds = {}
    /\ joinedGroupIds = {}
    /\ knownGroupIds = {}
    /\ deliveryBudget = MaxDedupDeliveries
    /\ logDeliveries = FALSE
    /\ CliStateInit

\* connect() and then the subscriptions' deliveries and the profile lookups.
DedupNext ==
    \/ Connect
    \/ BotCreated
    \/ DeliverGiftWrap
    \/ DeliverDirectMessage
    \/ DeliverGroupEvent
    \/ LookupSettled

\* A restricted-mode client with an adapter and the group g1 configured, which
\* is handed one event.
CliShutdownInit ==
    /\ optConfig = "ok"
    /\ vectorOnly = TRUE
    /\ mlsAdapter = TRUE
    /\ autoDiscoverGroups = FALSE
    /\ discoverGroupsFromHistory = FALSE
    /\ configuredGroupIds = {G1}
    /\ joinedGroupIds = {G1}
    /\ knownGroupIds = {G1}
    /\ deliveryBudget = 1
    /\ logDeliveries = FALSE
    /\ CliStateInit

\* connect(), one delivery with its adapter call and profile lookup, close(),
\* and the relay health monitor that connect() started.
ShutdownNext ==
    \/ Connect
    \/ BotCreated
    \/ KeyPackageSettled
    \/ DeliverGroupEvent
    \/ DecryptSettled
    \/ LookupSettled
    \/ Close
    \/ Tick
    \/ PoolStatusChange
    \/ MonitorPoll
    \/ ReconnectSettled

\* A client in either mode, with or without an adapter, that asks for every
\* group and for no history and has the group g1 configured; the order in
\* which its subscriptions deliver is recorded.
CliInboxInit ==
    /\ optConfig = "ok"
    /\ vectorOnly \in BOOLEAN
    /\ mlsAdapter \in BOOLEAN
    /\ autoDiscoverGroups = TRUE
    /\ discoverGroupsFromHistory = FALSE
    /\ configuredGroupIds = {G1}
    /\ joinedGroupIds = {G1}
    /\ knownGroupIds = {G1}
    /\ deliveryBudget = MaxDeliveries
    /\ logDeliveries = TRUE
    /\ CliStateInit

\* connect(), the subscriptions' deliveries, and the adapter calls and
\* profile lookups they start.
InboxNext ==
    \/ Connect
    \/ BotCreated
    \/ KeyPackageSettled
    \/ DeliverGiftWrap
    \/ DeliverDirectMessage
    \/ DeliverGroupEvent
    \/ LookupSettled
    \/ DecryptSettled
    \/ WelcomeSettled

\* connect() with close() called before it has finished, and close() and the
\* timer afterwards.
EarlyCloseNext ==
    \/ Connect
    \/ BotCreated
    \/ KeyPackageSettled
    \/ BootConnectSettled
    \/ BootGiftWrapsSettled
    \/ BootSyncSettled
    \/ BootGroupsSettled
    \/ BootWrappersSettled
    \/ CloseDuringConnect
    \/ Close
    \/ Tick
    \/ MonitorPoll

\* The steps of connect() after its guards: each is the settling of a promise
\* that connect() awaits.
StartupNext ==
    \/ BotCreated
    \/ KeyPackageSettled
    \/ BootConnectSettled
    \/ BootGiftWrapsSettled
    \/ BootSyncSettled
    \/ BootGroupsSettled
    \/ BootWrappersSettled

CliNext ==
    \/ Connect
    \/ BotCreated
    \/ KeyPackageSettled
    \/ BootConnectSettled
    \/ BootGiftWrapsSettled
    \/ BootSyncSettled
    \/ BootGroupsSettled
    \/ BootWrappersSettled
    \/ DeliverGiftWrap
    \/ DeliverDirectMessage
    \/ DeliverGroupEvent
    \/ LookupSettled
    \/ DecryptSettled
    \/ WelcomeSettled
    \/ SendGroupMessage
    \/ SendSettled
    \/ Close

\* ------------------------------------------------------------ specifications

\* A client that is connected and closed while its monitor runs and adapter
\* calls are in flight.
InitShutdown == CliShutdownInit /\ PubOff /\ MonOff /\ ClsOff /\ ExtOff
    /\ emitted = <<>>

SpecShutdown == InitShutdown /\ [][ShutdownNext]_vars

\* One group event and the group id extracted from its tags.
InitExtract == ExtInit /\ PubOff /\ MonOff /\ ClsOff /\ CliOff
    /\ emitted = <<>>

SpecExtract == InitExtract /\ [][Extract]_vars

\* A connected client, the events its subscriptions deliver in a recorded
\* order, and the calls they start.
InitInbox == CliInboxInit /\ PubOff /\ MonOff /\ ClsOff /\ ExtOff
    /\ emitted = <<>>

SpecInbox == InitInbox /\ [][InboxNext]_vars

\* A connected client and the events that reach emitMessage.
InitDedup == CliDedupInit /\ PubOff /\ MonOff /\ ClsOff /\ ExtOff
    /\ emitted = <<>>

SpecDedup == InitDedup /\ [][DedupNext]_vars

\* One publish call.
InitPublish == PubInit /\ MonOff /\ ClsOff /\ CliOff /\ ExtOff
    /\ emitted = <<>>

SpecPublish == InitPublish /\ [][PubNext]_vars

\* One publish call whose awaited pool promises settle: Promise.allSettled
\* settles once each ensureRelay and each pool.publish promise has, and the
\* pool bounds both with a timeout.
SpecPublishFair == InitPublish /\ [][PubNext]_vars /\ WF_vars(PubNext)

\* The health monitor of a connected client.
InitMonitor == MonInit /\ PubOff /\ ClsOff /\ CliOff /\ ExtOff
    /\ emitted = <<>>

SpecMonitor == InitMonitor /\ [][MonNext]_vars

\* The health monitor of a client whose connect() is called more than once.
SpecMonitorAgain == InitMonitor /\ [][MonAgainNext]_vars

\* The health monitor once its warm-up time is over.
InitMonitorWarm == MonWarmInit /\ PubOff /\ ClsOff /\ CliOff /\ ExtOff
    /\ emitted = <<>>

SpecMonitorWarm == InitMonitorWarm /\ [][MonNext]_vars

\* A client from its construction on: connect() with the historical bootstrap,
\* live events, adapter and lookup completions, sendGroupMessage and close().
Init == CliInit /\ PubOff /\ MonOff /\ ClsOff /\ ExtOff
    /\ emitted = <<>>

Spec == Init /\ [][CliNext]_vars

\* The client when every promise that connect() awaits settles.
SpecStartupFair == Init /\ [][CliNext]_vars /\ WF_vars(StartupNext)

\* The directed-to-bot classifier on every input of the bounded sets.
\* Every configuration; close() may be called while connect() is in progress.
SpecEarlyClose == Init /\ [][EarlyCloseNext]_vars

InitDirected == ClsInit /\ PubOff /\ MonOff /\ CliOff /\ ExtOff
    /\ emitted = <<>>

SpecDirected == InitDirected /\ [][Classify]_vars

\* ===================================================================== claims

\* ---------------------------------------------------------------- claim C1

\* The emitMessage invocations for event id e that await the profile lookup.
C1_Awaiting(e) ==
    Cardinality({i \in 1..Len(pendingLookups) : pendingLookups[i].id = e})

\* C1: for every event id e that has not been evicted from the dedup cache,
\* however many times emitMessage was invoked for e (by the live path, by the
\* gift-wrap or the group path, or while an earlier invocation still awaits
\* the profile lookup), exactly one `message` belongs to e: none before the
\* first invocation, and from the first invocation on exactly one, which is
\* either emitted already or still awaiting the lookup of its sender's profile.
C1_ExactlyOneMessage ==
    \A e \in EventIds :
        e \notin everEvicted =>
            messageCount[e] + C1_Awaiting(e) = IF emitCalls[e] > 0 THEN 1 ELSE 0

\* An id emitMessage was invoked for twice, whose one message was emitted.
C1_Witness ==
    \E e \in EventIds :
        /\ emitCalls[e] >= 2
        /\ messageCount[e] = 1
        /\ e \notin everEvicted

\* C2: a publish call on a non-empty relay list returns success whenever some
\* relay acknowledged in an attempt it made, however many other relays
\* rejected or could not be connected: it never throws, and never goes on to
\* another attempt, after an attempt with an acknowledgement.
C2_AckMeansSuccess ==
    (Len(pubRelays) >= 1 /\ pubAckSeen) => pubPc = "returned"

\* A call over two relays returned although one relay rejected and one could
\* not be connected.
C2_Witness ==
    /\ pubPc = "returned"
    /\ Len(pubRelays) = 2
    /\ \E i \in 1..2 : pubResults[i] # "ack"
    /\ pubConnected # {1, 2}

\* C3: a publish call on an empty relay list fails with the configuration
\* error for every value of retries, and no connect or publish request is
\* ever issued to the pool.
C3_EmptyRelaysFailFast ==
    Len(pubRelays) = 0 =>
        /\ pubPc \in {"idle", "thrown"}
        /\ pubPc = "thrown" => pubError = ConfigError
        /\ pubEnsureCalls = 0
        /\ pubPublishCalls = 0
        /\ pubAttempts = 0

\* A call with retries > 0 on an empty relay list has thrown.
C3_Witness ==
    /\ Len(pubRelays) = 0
    /\ pubRetries > 0
    /\ pubPc = "thrown"

\* C5: a poll emits `disconnect` for a relay only if the relay's stable state
\* was true, the relay reports down, the previous poll saw it down too (so
\* this is at least the 2nd consecutive down poll) and the warm-up, the larger
\* of 20 000 ms and twice the poll interval, has passed since the monitor start.
C5_DisconnectOnlyAfterHysteresis ==
    [][\A r \in Relays :
          Note("disconnect", r) \in SeqRange(emitted') =>
              /\ connectionState[r] = "true"
              /\ ~poolStatus[r]
              /\ prevObserved[r] = "down"
              /\ relayDownStreak'[r] >= 2
              /\ now - connectionMonitorStartedAt
                     >= Max(20000, 2 * reconnectIntervalMs)]_vars

\* A poll has just emitted `disconnect` for r1.
C5_Witness == Note("disconnect", "r1") \in SeqRange(emitted)

\* C6: a poll emits `reconnect` for a relay only if the relay's stable state
\* was false, the relay reports up and the previous poll saw it up too (so this
\* is at least the 2nd consecutive up poll).
C6_ReconnectOnlyAfterHysteresis ==
    [][\A r \in Relays :
          Note("reconnect", r) \in SeqRange(emitted') =>
              /\ connectionState[r] = "false"
              /\ poolStatus[r]
              /\ prevObserved[r] = "up"
              /\ relayUpStreak'[r] >= 2]_vars

\* A poll has just emitted `reconnect` for r2.
C6_Witness == Note("reconnect", "r2") \in SeqRange(emitted)

\* C7: the classifier answers true exactly when (1) the tags hold a `p`
\* mention of the bot's public key, or (2) the trimmed content, compared
\* without regard to case, starts with `@<name>` or `<name>:` for the bot's
\* non-empty short or display name, or (3) the bot is a member of the group and
\* the trimmed content starts with `!` followed by a non-space character; and
\* so on the examples: "@bob hi" for the bot named bob is directed, "!ping"
\* without mention is directed exactly when the bot is a member.
C7_Mentioned ==
    \E i \in 1..Len(clsTags) :
        Len(clsTags[i]) >= 2 /\ clsTags[i][1] = "p" /\ clsTags[i][2] = clsPublicKey

C7_Trimmed == trim(clsContent)

C7_NamePrefixed ==
    \E n \in {clsName, clsDisplayName} :
        /\ Len(n) > 0
        /\ \E k \in {Len(n) + 1} :
              /\ Len(C7_Trimmed) >= k
              /\ LET head == toLowerCase(SubSeq(C7_Trimmed, 1, k))
                 IN  \/ head = <<"@">> \o toLowerCase(n)
                     \/ head = toLowerCase(n) \o <<":">>

C7_MemberCommand ==
    /\ clsBotInGroup
    /\ Len(C7_Trimmed) >= 2
    /\ C7_Trimmed[1] = "!"
    /\ C7_Trimmed[2] \notin {" ", "\t", "\n"}

C7_DirectedIff ==
    clsResult # "none" =>
        /\ clsResult = "true" <=> (C7_Mentioned \/ C7_NamePrefixed \/ C7_MemberCommand)
        /\ (clsContent = AtBobHi /\ clsName = Bob) => clsResult = "true"
        /\ (clsContent = BangPing /\ ~C7_Mentioned /\ ~C7_NamePrefixed)
               => (clsResult = "true" <=> clsBotInGroup)

\* "!ping" was classified as directed for a member bot that is neither
\* mentioned nor named.
C7_Witness ==
    /\ clsResult = "true"
    /\ clsContent = BangPing
    /\ clsBotInGroup
    /\ clsTags = <<>>
    /\ clsName = Bob

\* ---------------------------------------------------------------- claim C4

\* C4: in every reachable state configuredGroupIds is a subset of
\* joinedGroupIds and joinedGroupIds is a subset of knownGroupIds.
C4_GroupSetsNested ==
    /\ configuredGroupIds \subseteq joinedGroupIds
    /\ joinedGroupIds \subseteq knownGroupIds

\* ---------------------------------------------------------------- claim C8

\* The `message` notifications among `notes`.
C8_Messages(notes) == {i \in 1..Len(notes) : notes[i].type = "message"}

\* m is the message of the private-DM rumor that gift wrap w carries.
C8_IsTheDm(m, w) ==
    /\ m.type = "message"
    /\ m.id = w.id
    /\ m.pubkey = w.inner.pubkey
    /\ m.content = w.inner.content
    /\ m.origin = "dm"
    /\ m.wrapped = TRUE
    /\ m.directedToBot = TRUE
    /\ m.isGroup = FALSE
    /\ m.conversationId = w.inner.pubkey

\* C8: a live gift wrap, not seen before, that unwraps to a private-DM rumor
\* with non-empty content c from pubkey P leads to exactly one `message` with
\* sender P, content c, origin "dm", wrapped true, directedToBot true, isGroup
\* false and conversationId P: it is emitted in the delivery step when P's
\* profile is cached, else it awaits the profile lookup and is the one
\* `message` emitted when that lookup settles, whatever its outcome.
C8_GiftWrapDmGivesOneMessage ==
    [][\A w \in GiftWraps :
          (w.inner.ok /\ w.inner.kind = PrivateDirectMessage /\ truthy(w.inner.content)) =>
              /\ (DeliverGiftWrapOf(w) /\ w.id \notin SeqRange(seenMessageIds)) =>
                     IF profileCache[w.inner.pubkey] # "none"
                     THEN /\ Cardinality(C8_Messages(emitted')) = 1
                          /\ \A k \in C8_Messages(emitted') : C8_IsTheDm(emitted'[k], w)
                          /\ pendingLookups' = pendingLookups
                     ELSE /\ C8_Messages(emitted') = {}
                          /\ Len(pendingLookups') = Len(pendingLookups) + 1
                          /\ C8_IsTheDm(pendingLookups'[Len(pendingLookups')], w)
              /\ \A i \in 1..Len(pendingLookups), outcome \in LookupOutcomes :
                     (LookupSettledOf(i, outcome) /\ pendingLookups[i].id = w.id) =>
                         /\ Cardinality(C8_Messages(emitted')) = 1
                         /\ \A k \in C8_Messages(emitted') : C8_IsTheDm(emitted'[k], w)
      ]_vars

\* The `message` of the gift-wrapped "hello" from the peer has been emitted.
C8_Witness ==
    \E k \in C8_Messages(emitted) :
        /\ emitted[k].id = WrapDm.id
        /\ emitted[k].content = Hello
        /\ emitted[k].wrapped

\* ---------------------------------------------------------------- claim C9

\* g is a group id in none of joinedGroupIds, configuredGroupIds, knownGroupIds.
C9_Untracked(g) ==
    /\ truthy(g)
    /\ g \notin (joinedGroupIds \cup configuredGroupIds \cup knownGroupIds)

\* The step adds g to observedGroupIds and does nothing else.
C9_OnlyObserved(g) ==
    /\ observedGroupIds' = observedGroupIds \cup {g}
    /\ UNCHANGED <<knownGroupIds, joinedGroupIds>>
    /\ UNCHANGED <<pendingDecrypts, decryptCalls>>
    /\ UNCHANGED <<pendingLookups, messageCount, emitCalls, seenMessageIds>>
    /\ \A k \in 1..Len(emitted') :
          emitted'[k].type \notin {"message", "group_discovered", "group_wrapper"}

\* C9: in restricted mode a group-wrapper event, delivered by the group
\* subscription or inside a gift wrap, whose group id g is in none of
\* joinedGroupIds, configuredGroupIds and knownGroupIds adds g to
\* observedGroupIds only: knownGroupIds and joinedGroupIds are unchanged, the
\* adapter is not asked to decrypt, and no `message`, `group_discovered` or
\* `group_wrapper` is emitted.
C9_UntrackedWrapperOnlyObserved ==
    [][vectorOnly =>
          /\ \A event \in GroupEvents :
                (/\ event.kind = VECTOR_MLS_GROUP_WRAPPER_KIND
                 /\ C9_Untracked(extractGroupIdFromEvent(event.tags))
                 /\ DeliverGroupEventOf(event))
                    => C9_OnlyObserved(extractGroupIdFromEvent(event.tags))
          /\ \A w \in GiftWraps :
                (/\ w.inner.ok
                 /\ w.inner.kind = VECTOR_MLS_GROUP_WRAPPER_KIND
                 /\ C9_Untracked(extractGroupIdFromEvent(w.inner.tags))
                 /\ DeliverGiftWrapOf(w))
                    => C9_OnlyObserved(extractGroupIdFromEvent(w.inner.tags))
      ]_vars

\* A restricted client without the historical bootstrap has observed, from a
\* live wrapper, a group that it does not track.
C9_Witness ==
    /\ vectorOnly
    /\ ~discoverGroupsFromHistory
    /\ connectPc = "ready"
    /\ deliveries >= 1
    /\ \E g \in observedGroupIds :
          g \notin (joinedGroupIds \cup configuredGroupIds \cup knownGroupIds)

\* --------------------------------------------------------------- claim C10

\* The distinct group ids among `events` that are not in knownGroupIds.
C10_NewGroupIds(events) ==
    {g \in {extractGroupIdFromEvent(events[i].tags) : i \in 1..Len(events)} :
        truthy(g) /\ g \notin knownGroupIds}

\* The `discovered` counts that the `group_bootstrap_complete` notifications
\* among `notes` report.
C10_Reported(notes) ==
    {notes[k].discovered :
        k \in {i \in 1..Len(notes) : notes[i].type = "group_bootstrap_complete"}}

\* C10 as stated: when the group query of the historical bootstrap returns
\* events, `group_bootstrap_complete` reports `discovered` equal to the number
\* of distinct group ids among them that were not in knownGroupIds before.
C10_DiscoveredCountsNewGroups ==
    [][\A events \in SeqsUpTo(HistoryGroupEvents, MaxHistory) :
          (events # <<>> /\ BootWrappersReturned(events)) =>
              C10_Reported(emitted') = {Cardinality(C10_NewGroupIds(events))}
      ]_vars

\* C10 as amended: when the group query of the historical bootstrap has
\* returned, `group_bootstrap_complete` is emitted once and reports, in open
\* mode, `discovered` equal to the number of distinct group ids among the
\* returned events that were not in knownGroupIds before, and in restricted
\* mode `discovered` = 0, whatever group wrappers were returned.
C10_DiscoveredByMode ==
    [][\A events \in SeqsUpTo(HistoryGroupEvents, MaxHistory) :
          (BootWrappersReturned(events) /\ connectPc' = "ready") =>
              C10_Reported(emitted') =
                  {IF vectorOnly THEN 0 ELSE Cardinality(C10_NewGroupIds(events))}
      ]_vars

\* The claim's example in restricted mode: the history held wrappers of g1,
\* which was known, and of g2, which was not and is only observed; the
\* bootstrap reported discovered = 0.
C10_Witness ==
    /\ vectorOnly
    /\ 0 \in C10_Reported(emitted)
    /\ G1 \in knownGroupIds
    /\ {G1, G2} \subseteq observedGroupIds
    /\ G2 \notin knownGroupIds

\* In open mode the history held events of two groups that were not known,
\* and the bootstrap reported discovered = 2.
C10_WitnessOpen ==
    /\ ~vectorOnly
    /\ 2 \in C10_Reported(emitted)

\* --------------------------------------------------------------- claim C11

\* C11: no step removes a group id from knownGroupIds, joinedGroupIds or
\* observedGroupIds (each set is a superset of its value before the step), and
\* configuredGroupIds keeps the value the constructor gave it.
C11_GroupSetsOnlyGrow ==
    [][/\ knownGroupIds \subseteq knownGroupIds'
       /\ joinedGroupIds \subseteq joinedGroupIds'
       /\ observedGroupIds \subseteq observedGroupIds'
       /\ configuredGroupIds' = configuredGroupIds
      ]_vars

\* In open mode the client has sent to g3 and afterwards handled a message of
\* its own in g1: both ids are joined, and g1 was observed.
C11_Witness ==
    /\ ~vectorOnly
    /\ configuredGroupIds = {}
    /\ {G1, G3} \subseteq joinedGroupIds
    /\ G3 \in knownGroupIds
    /\ G1 \in observedGroupIds

\* --------------------------------------------------------------- claim C12

\* The ids that a step's emitMessage invocations insert: the ids it was
\* invoked for that the cache did not hold.
C12_Inserted ==
    {id \in EventIds : emitCalls'[id] > emitCalls[id] /\ id \notin SeqRange(seenMessageIds)}

C13_Exhausted == pubPc = "thrown" /\ pubRelays # <<>>

\* C13: a publish on a non-empty relay list that every relay rejects in every
\* attempt makes exactly retries + 1 attempts (one pool.publish per relay in
\* each) and then fails with the reason of the first relay's rejection; after
\* an attempt that some relay acknowledged no further attempt is made; and
\* the call terminates, by returning or by throwing.
C13_RetriesThenFirstReason ==
    /\ [](C13_Exhausted =>
             /\ ~pubAckSeen
             /\ pubAttempts = pubRetries + 1
             /\ pubPublishCalls = (pubRetries + 1) * Len(pubRelays)
             /\ pubError = pubResults[1])
    /\ [](pubAttempts <= pubRetries + 1)
    /\ [][pubAckSeen =>
             /\ pubAttempts' = pubAttempts
             /\ pubPublishCalls' = pubPublishCalls
             /\ pubEnsureCalls' = pubEnsureCalls]_vars
    /\ [][pubAckSeen' => pubPc' = "returned"]_vars
    /\ <>(pubPc \in {"returned", "thrown"})

\* Two relays rejected all three attempts of a publish with two retries, the
\* last time with different reasons; the first relay's reason was thrown.
C13_Witness ==
    /\ C13_Exhausted
    /\ pubRetries = 2
    /\ pubAttempts = 3
    /\ Len(pubRelays) = 2
    /\ pubResults[1] # pubResults[2]
    /\ pubError = pubResults[1]

\* --------------------------------------------------------------- claim C14

\* close() has been called on a client whose connect() had completed.
C14_Closed == connectPc = "ready" /\ poolReleased

C14_Subscriptions == <<giftWrapSubscription, dmSubscription, groupSubscription>>

\* The `disconnect` and `reconnect` notifications among `notes`.
C14_MonitorNotes(notes) ==
    {k \in 1..Len(notes) : notes[k].type \in {"disconnect", "reconnect"}}

\* C14: close() on a connected client stops the monitor's timer, closes each
\* subscription that was opened, releases the pool and leaves the calls in
\* flight alone; afterwards the timer stays stopped and the subscriptions
\* closed, no step polls the relays (no stable state, streak or poll time
\* changes, no `disconnect` or `reconnect` is emitted, no reconnect attempt is
\* started) and no event is delivered.
C14_CloseShutsDown ==
    [][/\ (Close /\ connectPc = "ready") =>
             /\ ~connectionMonitor'
             /\ \A k \in 1..3 :
                   C14_Subscriptions[k] # "none" => C14_Subscriptions'[k] = "closed"
             /\ poolReleased'
             /\ UNCHANGED <<pendingDecrypts, pendingLookups, pendingWelcomes,
                            pendingSends>>
       /\ C14_Closed =>
             /\ ~connectionMonitor'
             /\ \A k \in 1..3 : C14_Subscriptions'[k] # "open"
             /\ poolReleased'
             /\ C14_MonitorNotes(emitted') = {}
             /\ UNCHANGED <<connectionState, relayDownStreak, relayUpStreak,
                            relayLastReconnectAttemptAt, monitorLastFire>>
             /\ reconnectingRelays' \subseteq reconnectingRelays
             /\ deliveries' = deliveries
      ]_vars

\* After close(), a decryptGroupWrapper call that was in flight completed and
\* its message went on to the profile lookup or was emitted, while a relay
\* was down and a poll interval had passed since the last poll.
C14_Witness ==
    /\ C14_Closed
    /\ \E k \in 1..Len(emitted) : emitted[k].type = "mls_wrapper_decrypt_hit"
    /\ \E r \in Relays : ~poolStatus[r]
    /\ now - monitorLastFire >= reconnectIntervalMs

\* --------------------------------------------------------------- claim C15

\* The state of the client that its callers and handlers see.
C15_ClientState ==
    <<bot, configuredGroupIds, joinedGroupIds, knownGroupIds, observedGroupIds,
      seenMessageIds, profileCache, poolReleased>>

\* What network activity leaves behind: subscriptions, the monitor, requests
\* and adapter calls made or in flight.
C15_Network ==
    <<giftWrapSubscription, dmSubscription, groupSubscription, groupFilter,
      connectionMonitor, pendingLookups, pendingDecrypts, pendingWelcomes,
      pendingSends, decryptCalls, emitCalls>>

\* C15: connect() without a private key or without relays throws at once, and
\* so does sendGroupMessage with an empty or blank group id; the failing call
\* emits nothing, starts no request, subscription or adapter call, and leaves
\* the client's state as it was; a client whose configuration is rejected
\* never has any network activity.
C15_ConfigurationErrorsFailFast ==
    /\ [][(optConfig # "ok" /\ Connect) =>
             /\ callResult' = IF optConfig = "nokey" THEN MissingPrivateKey ELSE NoRelays
             /\ connectPc' = "thrown"
             /\ emitted' = <<>>
             /\ UNCHANGED <<C15_ClientState, C15_Network>>]_vars
    /\ [][\A groupId \in SendArguments :
             (trim(groupId) = Empty /\ sends' # sends /\ SendGroupMessageOf(groupId)) =>
                 /\ callResult' = IF bot THEN MissingGroupId ELSE NotConnected
                 /\ emitted' = <<>>
                 /\ UNCHANGED <<C15_ClientState, C15_Network, connectPc>>]_vars
    /\ [](optConfig # "ok" =>
             /\ ~bot /\ ~connectionMonitor /\ connectPc \in {"new", "thrown"}
             /\ \A k \in 1..3 : C14_Subscriptions[k] = "none"
             /\ pendingLookups = <<>> /\ pendingDecrypts = <<>>
             /\ pendingWelcomes = <<>> /\ pendingSends = <<>>)

\* A connected client has just rejected a sendGroupMessage call for its
\* missing group id.
C15_Witness ==
    /\ callResult = MissingGroupId
    /\ bot
    /\ connectPc = "ready"
    /\ sends = 1
    /\ pendingSends = <<>>

\* connect() has just been rejected for the missing private key.
C15_WitnessConnect ==
    /\ callResult = MissingPrivateKey
    /\ connectPc = "thrown"

\* --------------------------------------------------------------- claim C16

\* The adapter calls whose failure is caught and reported with `from`.
C16_AdapterCalls ==
    {"ensureKeyPackage", "syncWelcomes", "bootstrapGroups", "processWelcome",
     "decryptGroupWrapper"}

\* The notifications that name a failed subsystem.
C16_FailedTypes == {"mls_welcome_process_failed", "mls_wrapper_decrypt_failed"}

C16_Has(notes, types) == \E k \in 1..Len(notes) : notes[k].type \in types

\* C16: every failure of an adapter call is surfaced, in the step that
\* handles it, as an `error` notification together with a `*_failed`
\* notification, and is not thrown to a caller: for the calls whose failure
\* is caught, the `error` comes with a `*_failed`; for adapter.sendGroupMessage
\* (restricted mode), a throw gives both notifications and no thrown error.
C16_AdapterFailuresReported ==
    [][/\ \A k \in 1..Len(emitted') :
             (emitted'[k].type = "error" /\ emitted'[k].from \in C16_AdapterCalls) =>
                 C16_Has(emitted', C16_FailedTypes)
       /\ \A i \in 1..Len(pendingSends) :
             (vectorOnly /\ SendSettledOf(i, "throw")) =>
                 /\ callResult' \notin ErrorMessages
                 /\ C16_Has(emitted', {"error"})
                 /\ C16_Has(emitted', C16_FailedTypes)
      ]_vars

\* --------------------------------------------------------------- claim C17

C17_ReadyNotes(notes) == {k \in 1..Len(notes) : notes[k].type = "ready"}

\* C17: once the bot identity exists, no failure aborts connect(): it never
\* throws, and when the promises it awaits settle it reaches the end of
\* startup, where in one step the gift-wrap and DM subscriptions are opened
\* (and the group subscription, unless no group is known and groups are not
\* discovered), the monitor is started and `ready` is emitted; `ready` is
\* emitted in that step only, once.
C17_StartupAlwaysCompletes ==
    /\ [](bot => connectPc # "thrown")
    /\ [][/\ (connectPc # "ready" /\ connectPc' = "ready") =>
                /\ giftWrapSubscription' = "open"
                /\ dmSubscription' = "open"
                /\ groupSubscription' =
                      IF ~autoDiscoverGroups /\ knownGroupIds' = {} THEN "none" ELSE "open"
                /\ connectionMonitor'
                /\ Cardinality(C17_ReadyNotes(emitted')) = 1
          /\ C17_ReadyNotes(emitted') # {} => (connectPc # "ready" /\ connectPc' = "ready")
          /\ connectPc = "ready" => connectPc' = "ready"
          /\ (bot /\ connectPc' # connectPc) => callResult' = "none"
         ]_vars
    /\ (bot ~> connectPc = "ready")

\* Startup has just completed although a relay query of the historical
\* bootstrap failed: the last step reported the failure as `error`, opened
\* the subscriptions, started the monitor and emitted `ready`.
C17_Witness ==
    /\ mlsAdapter /\ discoverGroupsFromHistory
    /\ connectPc = "ready"
    /\ connectionMonitor
    /\ giftWrapSubscription = "open" /\ dmSubscription = "open"
    /\ Len(emitted) = 2
    /\ emitted[1] = [type |-> "error", from |-> "bootstrap"]
    /\ emitted[2].type = "ready"

\* --------------------------------------------------------------- claim C18

\* The group messages among `notes` and `lookups`: those emitted, and those
\* that wait for the sender's profile to be emitted.
C18_GroupMessages(notes, lookups) ==
    {notes[k] : k \in {i \in 1..Len(notes) :
                          notes[i].type = "message" /\ notes[i].isGroup}}
        \cup {lookups[k] : k \in {i \in 1..Len(lookups) : lookups[i].isGroup}}

\* The event of the message carries a `p` tag of the bot (the rumor of a
\* gift-wrapped group wrapper carries none).
C18_Mentioned(m) ==
    \E e \in GroupEvents : e.id = m.id /\ mentionsBot(BotKey, e.tags)

\* The content is a plain !command: no mention, no bot-name prefix.
C18_PlainCommand(m) ==
    /\ isCommand(trim(m.content))
    /\ ~C18_Mentioned(m)
    /\ ~addressedBy(toLowerCase(trim(m.content)), toLowerCase(botName))
    /\ ~addressedBy(toLowerCase(trim(m.content)), toLowerCase(botDisplayName))

\* C18: a group message with a plain !command is directed to the bot only if
\* its botInGroup flag is set; and the message that an open-mode client builds
\* for a delivered group event has botInGroup set exactly when, before the
\* event is handled, its sender is the bot or its group id is in
\* joinedGroupIds or configuredGroupIds.
C18_CommandsNeedMembership ==
    /\ [](\A m \in C18_GroupMessages(emitted, pendingLookups) :
             (C18_PlainCommand(m) /\ m.directedToBot) => m.botInGroup)
    /\ [][\A event \in GroupEvents :
             (~vectorOnly /\ deliveries' # deliveries /\ DeliverGroupEventOf(event)) =>
                 \A m \in C18_GroupMessages(emitted', pendingLookups') :
                     (m.id = event.id /\ emitCalls'[m.id] = 1) =>
                         m.botInGroup = (\/ event.pubkey = BotKey
                                         \/ m.groupId \in joinedGroupIds
                                         \/ m.groupId \in configuredGroupIds)
         ]_vars

\* An open-mode client emitted a peer's plain !command in the configured
\* group g1 as directed to the bot, and holds a peer's plain !command in a
\* group it has not joined as not directed to it.
C18_Witness ==
    /\ ~vectorOnly
    /\ \E m \in C18_GroupMessages(emitted, <<>>) :
          /\ C18_PlainCommand(m) /\ m.pubkey = PeerKey /\ m.groupId = G1
          /\ m.botInGroup /\ m.directedToBot
    /\ \E m \in C18_GroupMessages(<<>>, pendingLookups) :
          /\ C18_PlainCommand(m) /\ m.pubkey = PeerKey /\ m.groupId = G2
          /\ ~m.botInGroup /\ ~m.directedToBot

\* --------------------------------------------------------------- claim C19

C19_GroupSets ==
    <<joinedGroupIds, knownGroupIds, observedGroupIds, configuredGroupIds>>

\* C19: when the awaited send of sendGroupMessage(g, text) succeeds, the
\* (trimmed) g is added to joinedGroupIds and knownGroupIds and true is
\* returned; true is returned in no other step; when the adapter reports
\* not sent or the adapter or the publish throws, false is returned or the
\* error is thrown and no group set changes; the call itself changes no
\* group set before the send has settled, and in restricted mode without an
\* adapter it emits `error`, returns false and starts no send.
C19_SendJoinsOnSuccessOnly ==
    [][/\ \A i \in 1..Len(pendingSends), outcome \in SendOutcomes :
             (pendingSends' # pendingSends /\ SendSettledOf(i, outcome)) =>
                 IF outcome = "true"
                 THEN /\ callResult' = "true"
                      /\ joinedGroupIds' = joinedGroupIds \cup {pendingSends[i]}
                      /\ knownGroupIds' = knownGroupIds \cup {pendingSends[i]}
                      /\ UNCHANGED <<observedGroupIds, configuredGroupIds>>
                 ELSE /\ callResult' = IF outcome = "false" THEN "false" ELSE SendFailed
                      /\ UNCHANGED C19_GroupSets
       /\ \A groupId \in SendArguments :
             (sends' # sends /\ SendGroupMessageOf(groupId)) =>
                 /\ UNCHANGED C19_GroupSets
                 /\ callResult' # "true"
                 /\ (bot /\ trim(groupId) # Empty /\ vectorOnly /\ ~mlsAdapter) =>
                        /\ callResult' = "false"
                        /\ emitted' = <<[type |-> "error", from |-> "sendGroupMessage"]>>
                        /\ pendingSends' = pendingSends
                        /\ UNCHANGED <<bot, connectPc, connectionMonitor, C14_Subscriptions>>
       /\ callResult' = "true" =>
             \E i \in 1..Len(pendingSends) : SendSettledOf(i, "true")
      ]_vars

\* In restricted mode the adapter has just reported the message to g3 as
\* sent: true was returned and g3, which was not configured, is joined and
\* known.
C19_Witness ==
    /\ vectorOnly /\ mlsAdapter
    /\ callResult = "true"
    /\ G3 \notin configuredGroupIds
    /\ G3 \in joinedGroupIds
    /\ G3 \in knownGroupIds
    /\ pendingSends = <<>>

\* --------------------------------------------------------------- claim C20

\* C20: the first poll that observes a relay (no poll has observed it
\* before) records what it observes as the relay's stable state and emits no
\* notification about that relay, whether the relay is up or down.
C20_FirstPollOnlySeeds ==
    [][MonitorPoll =>
          \A r \in Relays :
              prevObserved[r] = "none" =>
                  /\ connectionState[r] = "undefined"
                  /\ connectionState'[r] = IF poolStatus[r] THEN "true" ELSE "false"
                  /\ \A k \in 1..Len(emitted') : emitted'[k].relay # r
      ]_vars

\* The first poll, one interval after the monitor was started, has just
\* observed r1 down and r2 up: these are their stable states, each streak
\* counts one poll, and nothing was emitted.
C20_Witness ==
    /\ connectionMonitorStartedAt = StartTime
    /\ now = StartTime + reconnectIntervalMs
    /\ monitorLastFire = now
    /\ connectionState = [r \in Relays |-> IF r = "r1" THEN "false" ELSE "true"]
    /\ prevObserved = [r \in Relays |-> IF r = "r1" THEN "down" ELSE "up"]
    /\ relayDownStreak["r1"] = 1 /\ relayUpStreak["r2"] = 1
    /\ emitted = <<>>

\* --------------------------------------------------------------- claim C21

\* The step calls reconnectRelay for `r`: the time of its last attempt is taken.
C21_Attempts(r) == relayLastReconnectAttemptAt'[r] # relayLastReconnectAttemptAt[r]

\* C21: a reconnect attempt for a relay is started only by a poll, with
\* reconnection enabled, at which the relay reports disconnected, and not
\* before max(15 000 ms, 2 x poll interval) have passed since the relay's
\* previous attempt; an attempt that fails emits `error` for the relay and
\* starts no new attempt; with reconnection disabled no attempt is started
\* and none is ever in flight.
C21_ReconnectAttemptsBackOff ==
    /\ [][\A r \in Relays :
             /\ (C21_Attempts(r) \/ r \in reconnectingRelays' \ reconnectingRelays) =>
                   /\ MonitorPoll
                   /\ shouldReconnect
                   /\ ~poolStatus[r]
                   /\ relayLastReconnectAttemptAt'[r] = now
                   /\ now - relayLastReconnectAttemptAt[r]
                         >= Max(15000, 2 * reconnectIntervalMs)
             /\ ReconnectSettledOf(r, FALSE) =>
                   /\ emitted' = <<Note("error", r)>>
                   /\ \A q \in Relays : ~C21_Attempts(q)
                   /\ reconnectingRelays' = reconnectingRelays \ {r}
         ]_vars
    /\ [](~shouldReconnect =>
             /\ reconnectingRelays = {}
             /\ \A r \in Relays : relayLastReconnectAttemptAt[r] = 0)

\* The monitor of a client with the 5 s poll interval attempted to reconnect
\* r1 at the poll one interval after the start, and again at this poll, three
\* intervals (the 15 s backoff window) later.
C21_Witness ==
    /\ shouldReconnect
    /\ reconnectIntervalMs = 5000
    /\ monitorLastFire = now
    /\ relayLastReconnectAttemptAt["r1"] = now
    /\ now = StartTime + 4 * reconnectIntervalMs
    /\ prevObserved["r1"] = "down"
    /\ relayDownStreak["r1"] = 4

\* --------------------------------------------------------------- claim C22

\* C22: a poll that finds a relay down whose stable state is true, when the
\* previous poll found it down too and the warm-up max(20 000 ms, 2 x poll
\* interval) since the monitor's start has passed, emits `disconnect` for it
\* and makes its stable state false; a poll that finds a relay up whose
\* stable state is false, when the previous poll found it up too, emits
\* `reconnect` for it and makes its stable state true. So a relay that stays
\* down (up) is reported at the second poll of the outage (recovery) that
\* falls after the warm-up, as long as the monitor polls.
C22_OutagesNotMasked ==
    [][MonitorPoll =>
          \A r \in Relays :
              /\ (/\ connectionState[r] = "true"
                  /\ ~poolStatus[r]
                  /\ prevObserved[r] = "down"
                  /\ now - connectionMonitorStartedAt
                        >= Max(20000, 2 * reconnectIntervalMs)) =>
                     /\ Note("disconnect", r) \in SeqRange(emitted')
                     /\ connectionState'[r] = "false"
              /\ (/\ connectionState[r] = "false"
                  /\ poolStatus[r]
                  /\ prevObserved[r] = "up") =>
                     /\ Note("reconnect", r) \in SeqRange(emitted')
                     /\ connectionState'[r] = "true"
      ]_vars

\* This poll reported the outage of r1: it was the second poll in a row that
\* found r1 down, the warm-up had passed, and r1's stable state is now false.
C22_Witness ==
    /\ monitorLastFire = now
    /\ Note("disconnect", "r1") \in SeqRange(emitted)
    /\ relayDownStreak["r1"] = 2
    /\ connectionState["r1"] = "false"
    /\ now - connectionMonitorStartedAt >= Max(20000, 2 * reconnectIntervalMs)

\* --------------------------------------------------------------- claim C23

\* What a handler's step may leave behind for later notifications.
C23_Kept ==
    <<joinedGroupIds, knownGroupIds, observedGroupIds, seenMessageIds, profileCache,
      pendingLookups, pendingDecrypts, pendingWelcomes, messageCount, emitCalls>>

\* C23: the delivery of a gift wrap that cannot be unwrapped emits nothing
\* (no `error`, no `message`, no other notification), changes neither the
\* group sets nor the dedup cache, and starts no call that could emit later.
C23_UnwrapFailureSilent ==
    [][\A event \in GiftWraps :
          (~event.inner.ok /\ deliveries' # deliveries /\ DeliverGiftWrapOf(event)) =>
             /\ emitted' = <<>>
             /\ UNCHANGED C23_Kept
      ]_vars

\* The gift wrap addressed to someone else was the second event delivered,
\* after a direct message that was emitted.
C23_Witness ==
    /\ deliveryLog = <<DmOk.id, WrapOpaque.id>>
    /\ emitted = <<>>
    /\ seenMessageIds = <<DmOk.id>>

\* --------------------------------------------------------------- claim C24

\* The `message` notifications for the event `id` among `notes`.
C24_MessagesFor(notes, id) ==
    {i \in 1..Len(notes) : notes[i].type = "message" /\ notes[i].id = id}

\* The messages the step made: emitted by it, or waiting for their profile.
C24_Made(id) ==
    IF Len(pendingLookups') > Len(pendingLookups)
    THEN <<pendingLookups'[Len(pendingLookups')]>>
    ELSE SelectSeq(emitted', LAMBDA n : n.type = "message" /\ n.id = id)

\* C24: the delivery of a kind-4 event that decrypts, and whose id the dedup
\* cache does not hold, makes exactly one message for it, with isGroup =
\* false, directedToBot = true, wrapped = false, origin "dm" and the
\* plaintext, emitted by this step or by the step its profile lookup settles
\* in; a settling lookup emits exactly the message that waited for it. The
\* delivery of one whose decryption fails emits one `error` and nothing else,
\* starts no lookup and leaves the dedup cache as it was.
C24_DirectMessages ==
    [][/\ \A event \in DirectMessages :
            (/\ event.kind = EncryptedDirectMessage
             /\ deliveries' # deliveries
             /\ DeliverDirectMessageOf(event)) =>
               IF event.inner.ok
               THEN /\ \A i \in 1..Len(emitted') : emitted'[i].type = "message"
                    /\ IF event.id \in SeqRange(seenMessageIds)
                       THEN emitted' = <<>> /\ pendingLookups' = pendingLookups
                       ELSE /\ Len(C24_Made(event.id)) = 1
                            /\ Len(emitted') + Len(pendingLookups')
                                  = Len(pendingLookups) + 1
                            /\ LET m == C24_Made(event.id)[1]
                               IN  /\ m.id = event.id
                                   /\ ~m.isGroup /\ m.directedToBot /\ ~m.wrapped
                                   /\ m.origin = "dm"
                                   /\ m.content = event.inner.content
                                   /\ m.pubkey = event.pubkey
                                   /\ m.conversationId = event.pubkey
               ELSE /\ emitted' = <<[type |-> "error", from |-> "nip04.decrypt"]>>
                    /\ seenMessageIds' = seenMessageIds
                    /\ pendingLookups' = pendingLookups
                    /\ messageCount' = messageCount
       /\ \A i \in 1..Len(pendingLookups), outcome \in LookupOutcomes :
            LookupSettledOf(i, outcome) =>
               /\ Cardinality(C24_MessagesFor(emitted', pendingLookups[i].id)) = 1
               /\ \A j \in C24_MessagesFor(emitted', pendingLookups[i].id) :
                     [emitted'[j] EXCEPT !.displayName = "undefined"] = pendingLookups[i]
      ]_vars

\* A direct message was delivered and emitted after its lookup, and the next
\* one delivered could not be decrypted: the step emitted `error` and the
\* dedup cache holds the first id only.
C24_Witness ==
    /\ deliveryLog = <<DmOk.id, DmBad.id>>
    /\ messageCount[DmOk.id] = 1
    /\ emitted = <<[type |-> "error", from |-> "nip04.decrypt"]>>
    /\ seenMessageIds = <<DmOk.id>>

\* --------------------------------------------------------------- claim C25

\* How many notifications of `type` are among `notes`.
C25_Count(notes, type) == Cardinality({i \in 1..Len(notes) : notes[i].type = type})

\* The first value of the rumor's `h` tags, as the source's loop finds it.
C25_Hint(rumor) ==
    LET hits == {i \in 1..Len(rumor.tags) : rumor.tags[i][1] = "h"}
    IN  IF hits = {} THEN Undefined
        ELSE rumor.tags[CHOOSE i \in hits : \A j \in hits : i <= j][2]

\* C25: the delivery of a gift wrap that unwraps to a welcome rumor (kind 443)
\* emits exactly one `mls_welcome`; with a group-id hint in the rumor the
\* hint is in knownGroupIds and joinedGroupIds afterwards and one
\* `group_discovered` for it is emitted, without one none is; with an adapter
\* one processWelcome call is started, without one none is. When that call
\* settles, with whatever outcome, no `mls_welcome` is emitted again.
C25_WelcomeHandled ==
    [][/\ \A event \in GiftWraps :
            (/\ event.inner.ok /\ event.inner.kind = VECTOR_MLS_WELCOME_KIND
             /\ deliveries' # deliveries
             /\ DeliverGiftWrapOf(event)) =>
               LET hint == C25_Hint(event.inner)
               IN  /\ C25_Count(emitted', "mls_welcome") = 1
                   /\ emitted'[Len(emitted')].type = "mls_welcome"
                   /\ IF hint # Undefined /\ hint # Empty
                      THEN /\ hint \in knownGroupIds' /\ hint \in joinedGroupIds'
                           /\ C25_Count(emitted', "group_discovered") = 1
                           /\ \E i \in 1..Len(emitted') :
                                 /\ emitted'[i].type = "group_discovered"
                                 /\ emitted'[i].groupId = hint
                                 /\ emitted'[i].source = "welcome"
                      ELSE /\ C25_Count(emitted', "group_discovered") = 0
                           /\ knownGroupIds' = knownGroupIds
                           /\ joinedGroupIds' = joinedGroupIds
                   /\ Len(pendingWelcomes') =
                         Len(pendingWelcomes) + (IF mlsAdapter THEN 1 ELSE 0)
                   /\ mlsAdapter =>
                         pendingWelcomes'[Len(pendingWelcomes')].eventId = event.id
       /\ (pendingWelcomes' # pendingWelcomes /\ WelcomeSettled) =>
             /\ C25_Count(emitted', "mls_welcome") = 0
             /\ Len(pendingWelcomes') = Len(pendingWelcomes) - 1
      ]_vars

\* A welcome with the hint g2 was delivered to a client with an adapter, and
\* the adapter's processWelcome has just failed: g2 is known and joined.
C25_Witness ==
    /\ mlsAdapter
    /\ deliveryLog = <<WrapWelcome.id>>
    /\ G2 \in knownGroupIds /\ G2 \in joinedGroupIds
    /\ pendingWelcomes = <<>>
    /\ C25_Count(emitted, "mls_welcome_process_failed") = 1

\* --------------------------------------------------------------- claim C26

\* The adapter settled with no plaintext: null, or a result without content.
C26_Miss(decrypted) ==
    decrypted.res = "null" \/ (decrypted.res = "value" /\ decrypted.content = Empty)

\* C26: when decryptGroupWrapper settles with no plaintext for a wrapper of
\* a tracked group, the step emits `mls_wrapper_decrypt_miss` for the
\* wrapper's group and event and nothing else; joinedGroupIds, knownGroupIds
\* and the dedup cache are unchanged and no message is emitted or left
\* waiting for a profile.
C26_DecryptMissStops ==
    [][\A decrypted \in DecryptOutcomes, i \in 1..Len(pendingDecrypts) :
          (/\ C26_Miss(decrypted)
           /\ pendingDecrypts' # pendingDecrypts
           /\ DecryptSettledOf(i, decrypted)) =>
             /\ vectorOnly
             /\ emitted' = <<[type |-> "mls_wrapper_decrypt_miss",
                              groupId |-> pendingDecrypts[i].groupId,
                              eventId |-> pendingDecrypts[i].event.id]>>
             /\ UNCHANGED <<joinedGroupIds, knownGroupIds, seenMessageIds,
                            pendingLookups, messageCount, emitCalls>>
      ]_vars

\* The wrapper of the configured group g1 was delivered, the adapter had no
\* plaintext for it, and nothing but the diagnostic came of it.
C26_Witness ==
    /\ vectorOnly /\ mlsAdapter
    /\ deliveryLog = <<WrapperG1.id>>
    /\ pendingDecrypts = <<>>
    /\ emitted = <<[type |-> "mls_wrapper_decrypt_miss", groupId |-> G1,
                    eventId |-> WrapperG1.id]>>
    /\ seenMessageIds = <<>>
    /\ joinedGroupIds = {G1} /\ knownGroupIds = {G1}

\* --------------------------------------------------------------- claim C27

\* The adapter settled with a plaintext.
C27_Hit(decrypted) == decrypted.res = "value" /\ decrypted.content # Empty

\* The group id a decrypted wrapper is filed under: the adapter's, when it
\* names one, else the one extracted from the wrapper.
C27_Resolved(decrypted, wrapperGroupId) ==
    IF decrypted.groupId \notin {Undefined, Empty} THEN decrypted.groupId
    ELSE wrapperGroupId

\* The message emitMessage was called for: emitted by the step, or waiting
\* for its profile.
C27_Forwarded ==
    IF Len(pendingLookups') > Len(pendingLookups)
    THEN {pendingLookups'[Len(pendingLookups')]}
    ELSE {emitted'[j] : j \in {k \in 1..Len(emitted') : emitted'[k].type = "message"}}

\* C27: when decryptGroupWrapper settles with a plaintext for a wrapper of a
\* tracked group, the resolved group id is in joinedGroupIds and
\* knownGroupIds afterwards, `mls_wrapper_decrypt_hit` is emitted for it, and
\* emitMessage is called once for the wrapper's id; the message it makes
\* (unless the dedup cache holds the id) has isGroup = true, botInGroup =
\* true, conversationId = groupId = the resolved id, the plaintext as content
\* and directedToBot as isGroupContentDirectedToBot answers for the plaintext,
\* botInGroup = true and the wrapper's tags.
C27_DecryptHitForwards ==
    [][\A decrypted \in DecryptOutcomes, i \in 1..Len(pendingDecrypts) :
          (/\ C27_Hit(decrypted)
           /\ pendingDecrypts' # pendingDecrypts
           /\ DecryptSettledOf(i, decrypted)) =>
             LET event == pendingDecrypts[i].event
                 resolved == C27_Resolved(decrypted, pendingDecrypts[i].groupId)
             IN  /\ vectorOnly
                 /\ resolved \in joinedGroupIds' /\ resolved \in knownGroupIds'
                 /\ joinedGroupIds' = joinedGroupIds \cup {resolved}
                 /\ knownGroupIds' = knownGroupIds \cup {resolved}
                 /\ emitted'[1].type = "mls_wrapper_decrypt_hit"
                 /\ emitted'[1].groupId = resolved
                 /\ emitCalls' = [emitCalls EXCEPT ![event.id] = @ + 1]
                 /\ IF event.id \in SeqRange(seenMessageIds)
                    THEN C27_Forwarded = {}
                    ELSE /\ Cardinality(C27_Forwarded) = 1
                         /\ \A m \in C27_Forwarded :
                               /\ m.id = event.id
                               /\ m.isGroup /\ m.botInGroup
                               /\ m.conversationId = resolved
                               /\ m.groupId = resolved
                               /\ m.origin = "group"
                               /\ m.content = decrypted.content
                               /\ m.directedToBot =
                                     isGroupContentDirectedToBot(
                                         BotKey, botName, botDisplayName,
                                         decrypted.content, TRUE, event.tags)
      ]_vars

\* The wrapper of the configured group g1 was delivered and the adapter
\* decrypted it as a message of group g3: g3 is joined and known, and the
\* message, filed under g3, waits for its sender's profile.
C27_Witness ==
    /\ deliveryLog = <<WrapperG1.id>>
    /\ G3 \in joinedGroupIds /\ G3 \in knownGroupIds
    /\ emitted = <<[type |-> "mls_wrapper_decrypt_hit", groupId |-> G3,
                    eventId |-> WrapperG1.id, sender |-> BotKey]>>
    /\ Len(pendingLookups) = 1
    /\ pendingLookups[1].groupId = G3
    /\ pendingLookups[1].conversationId = G3
    /\ pendingLookups[1].isGroup /\ pendingLookups[1].botInGroup

\* --------------------------------------------------------------- claim C28

C28_IsHex(value) ==
    /\ Len(value) \in 32..64
    /\ \A i \in 1..Len(value) :
          value[i] \in {"0", "1", "2", "3", "4", "5", "6", "7", "8", "9", "a", "b",
                        "c", "d", "e", "f", "A", "B", "C", "D", "E", "F"}

\* The tags of `tags` that have a value and whose key is one of `keys`.
C28_Keyed(tags, keys) == {i \in 1..Len(tags) : Len(tags[i]) >= 2 /\ tags[i][1] \in keys}

C28_First(indices) == CHOOSE i \in indices : \A j \in indices : i <= j

\* The values of the explicit group tags: key `h` in either case, not empty.
C28_Explicit(tags) == {tags[i][2] : i \in C28_Keyed(tags, {"h", "H"})} \ {Empty}

\* The hex identifiers among all the tag values, by position.
C28_Hexes(tags) == {i \in 1..Len(tags) : Len(tags[i]) >= 2 /\ C28_IsHex(tags[i][2])}

\* What the second and third rule give: the `d` tag's value when it is a hex
\* identifier; else the first hex identifier anywhere; else none.
C28_ByHex(tags) ==
    IF /\ C28_Keyed(tags, {"d"}) # {}
       /\ C28_IsHex(tags[C28_First(C28_Keyed(tags, {"d"}))][2])
    THEN tags[C28_First(C28_Keyed(tags, {"d"}))][2]
    ELSE IF C28_Hexes(tags) # {} THEN tags[C28_First(C28_Hexes(tags))][2]
    ELSE Undefined

\* The answers the stated order allows for `tags`, in its widest reading:
\* when the first group tag (`h` in either case) has a value, the value of
\* any group tag; when the first group tag's value is empty, that or what
\* the later rules give; without a group tag, what the later rules give.
C28_Allowed(tags) ==
    LET keyed == C28_Keyed(tags, {"h", "H"})
    IN  IF keyed # {} /\ tags[C28_First(keyed)][2] # Empty
        THEN C28_Explicit(tags)
        ELSE C28_Explicit(tags) \cup {C28_ByHex(tags)}

\* C28: for every tag list the extracted group id is the first match in the
\* order explicit group tag (`h`, in either case), `d` tag with a hex
\* identifier, any hex identifier; and when nothing matches,
\* `group_wrapper_unresolved` is emitted alone and the client's sets stay as
\* they were. (Violated: an `h` tag with an empty value hides the `H` tag
\* before it.)
C28_ExtractionOrder ==
    extraction.handled =>
       /\ extraction.groupId \in C28_Allowed(extraction.tags)
       /\ extraction.groupId = Undefined =>
             /\ Len(extraction.notes) = 1
             /\ extraction.notes[1].type = "group_wrapper_unresolved"
             /\ extraction.kept

\* --------------------------------------------------------------- claim C29

\* A lookup was issued by this step: an emitMessage call waits for it.
C29_Issued == Len(pendingLookups') > Len(pendingLookups)

\* C29: a profile lookup that settles leaves its result in the cache under
\* the pubkey it was made for: the profile when data came, an empty record
\* when nothing came or the lookup failed. An entry of the cache is never
\* removed, and a lookup is only issued for a pubkey that has no entry, so
\* after the first completed lookup for a pubkey no emission for it issues
\* another one.
C29_LookupsCached ==
    [][/\ \A i \in 1..Len(pendingLookups), outcome \in LookupOutcomes :
            (pendingLookups' # pendingLookups /\ LookupSettledOf(i, outcome)) =>
               profileCache'[pendingLookups[i].pubkey] =
                  IF outcome = "data" THEN "data" ELSE "empty"
       /\ \A k \in Pubkeys : profileCache[k] # "none" => profileCache'[k] # "none"
       /\ C29_Issued =>
             /\ Len(pendingLookups') = Len(pendingLookups) + 1
             /\ SubSeq(pendingLookups', 1, Len(pendingLookups)) = pendingLookups
             /\ profileCache[pendingLookups'[Len(pendingLookups')].pubkey] = "none"
      ]_vars

\* The lookup for the peer's profile failed when its direct message was
\* emitted; the peer's wrapped direct message, delivered next, was emitted by
\* the delivery step itself, from the cached empty record and with no lookup.
C29_Witness ==
    /\ deliveryLog = <<DmOk.id, WrapDm.id>>
    /\ profileCache[PeerKey] = "empty"
    /\ pendingLookups = <<>>
    /\ Len(emitted) = 1
    /\ emitted[1].type = "message" /\ emitted[1].id = WrapDm.id
    /\ emitted[1].displayName = "undefined"
    /\ messageCount[DmOk.id] = 1

\* --------------------------------------------------------------- claim C30

\* The subscription an event id arrives on.
C30_Subscription(id) ==
    IF id \in {e.id : e \in GiftWraps} THEN "giftwrap"
    ELSE IF id \in {e.id : e \in DirectMessages} THEN "dm"
    ELSE "group"

\* The step emits the `message` notification of the event `id`.
C30_EmitsMessage(id) ==
    \E k \in 1..Len(emitted') : emitted'[k].type = "message" /\ emitted'[k].id = id

\* C30: when the `message` of an event is emitted, no `message` has been
\* emitted yet for an event that the same subscription delivered after it.
\* (Violated: the messages are emitted as the profile lookups and the
\* adapter's decrypt calls settle, in whatever order that is.)
C30_EmittedInDeliveryOrder ==
    [][\A i, j \in 1..Len(deliveryLog) :
          (/\ i < j
           /\ deliveryLog[i] # deliveryLog[j]
           /\ C30_Subscription(deliveryLog[i]) = C30_Subscription(deliveryLog[j])
           /\ C30_EmitsMessage(deliveryLog[i])) =>
             messageCount[deliveryLog[j]] = 0
      ]_vars

\* --------------------------------------------------------------- claim C31

\* The `message` notifications of group messages among `notes`.
C31_GroupMessages(notes) ==
    {i \in 1..Len(notes) : notes[i].type = "message" /\ notes[i].isGroup}

\* C31: in restricted mode no `message` is emitted for a decrypted group
\* message that isGroupContentDirectedToBot finds not directed to the bot.
\* (Violated: the classifier's answer is passed on in the message and does
\* not decide whether the message is emitted.)
C31_UndirectedNotEmitted ==
    vectorOnly =>
       \A i \in C31_GroupMessages(emitted) : emitted[i].directedToBot

\* --------------------------------------------------------------- claim C32

\* The positions of the notifications of `type` among `notes`.
C32_Of(notes, type) == {i \in 1..Len(notes) : notes[i].type = type}

\* The step belongs to bootstrapKnownGroups.
C32_BootstrapStep ==
    /\ connectPc \in {"boot_connect", "boot_giftwraps", "boot_giftwraps2", "boot_sync",
                      "boot_groups", "boot_wrappers", "boot_wrappers2"}
    /\ connectPc' # connectPc

\* C32: a step of the bootstrap emits `group_discovered` once for each group
\* id it makes known and for no other; the step that ends a successful
\* bootstrap emits exactly one `group_bootstrap_complete`, after the step's
\* discoveries; and processWelcome calls that the bootstrap's gift-wrap
\* replay started emit no `group_discovered` once the bootstrap has ended.
\* (Violated: those calls are not awaited, and the replay of a welcome
\* announces its hint whether it was known or not.)
C32_BootstrapDiscoveries ==
    [][/\ C32_BootstrapStep =>
             LET found == C32_Of(emitted', "group_discovered")
                 done == C32_Of(emitted', "group_bootstrap_complete")
             IN  /\ \A i \in found : emitted'[i].groupId \notin knownGroupIds
                 /\ \A i, j \in found :
                       emitted'[i].groupId = emitted'[j].groupId => i = j
                 /\ {emitted'[i].groupId : i \in found} = knownGroupIds' \ knownGroupIds
                 /\ Cardinality(done) <= 1
                 /\ \A i \in found, j \in done : i < j
       /\ \A i \in 1..Len(pendingWelcomes), result \in WelcomeOutcomes :
             (/\ pendingWelcomes' # pendingWelcomes
              /\ pendingWelcomes[i].replayed
              /\ connectPc = "ready"
              /\ WelcomeSettledOf(i, result)) =>
                C32_Of(emitted', "group_discovered") = {}
      ]_vars

\* --------------------------------------------------------------- claim C33

\* The live path over `events`: what the gift-wrap subscription's callback
\* does with each of them in turn.
RECURSIVE C33_LiveGiftWraps(_, _)
C33_LiveGiftWraps(c, events) ==
    IF events = <<>> THEN c
    ELSE C33_LiveGiftWraps(handleGiftWrap(c, Head(events), TRUE), Tail(events))

\* The live path over `events`: what the group subscription's callback does
\* with each of them in turn.
RECURSIVE C33_LiveGroupEvents(_, _)
C33_LiveGroupEvents(c, events) ==
    IF events = <<>> THEN c
    ELSE C33_LiveGroupEvents(handleGroupMessage(c, Head(events)), Tail(events))

\* The step's notifications but for the bootstrap's summary and `ready`.
C33_Handling(notes) ==
    SelectSeq(notes, LAMBDA n : n.type \notin {"group_bootstrap_debug",
                                                "group_bootstrap_complete", "ready"})

\* The step left the client as the live path `live` would have: the group
\* sets, the dedup cache, the calls started, and the notifications by type.
C33_SameAs(live) ==
    /\ joinedGroupIds' = live.joined
    /\ knownGroupIds' = live.known
    /\ observedGroupIds' = live.observed
    /\ seenMessageIds' = live.seen
    /\ pendingLookups' = live.lookups
    /\ Len(pendingDecrypts') = Len(live.decrypts)
    /\ [i \in 1..Len(C33_Handling(emitted')) |-> C33_Handling(emitted')[i].type]
          = [i \in 1..Len(live.notes) |-> live.notes[i].type]

\* C33: the events a bootstrap query returns are handled as the live path
\* handles them: from the same state the step makes the same updates of the
\* group sets and of the dedup cache and emits the same notifications.
\* (Violated: the replay of gift wraps emits no direct messages, and the scan
\* of the group events only registers group ids.)
C33_HistoryHandledAsLive ==
    [][/\ \A events \in SeqsUpTo(GiftWraps, MaxHistory) :
            (/\ events # <<>>
             /\ deliveries' = deliveries + Len(events)
             /\ BootGiftWrapsReturned(events)) =>
               C33_SameAs(C33_LiveGiftWraps(Client, events))
       /\ \A events \in SeqsUpTo(HistoryGroupEvents, MaxHistory) :
            (/\ events # <<>>
             /\ deliveries' = deliveries + Len(events)
             /\ BootWrappersReturned(events)) =>
               C33_SameAs(C33_LiveGroupEvents(Client, events))
      ]_vars


\* ------------------------------------------------------------------- C34
\* C34: for each relay at most one reconnect attempt (a pending
\* pool.ensureRelay call) is in flight, and the relay is in reconnectingRelays
\* exactly while it is; when an attempt settles, with success or with failure,
\* the marker of its relay is gone; and while an attempt on one relay is
\* pending, the timer still fires when its interval has passed and a poll
\* starts an attempt on another relay exactly when that relay's own state asks
\* for one (down, backoff window over, no attempt of its own in flight).
C34_OnePerRelay(pending, marked) ==
    \A r \in Relays :
        /\ pending[r] <= 1
        /\ r \in marked <=> pending[r] = 1

C34_OthersPending(q) == \E r \in Relays \ {q} : r \in reconnectingRelays

C34_IndependentReconnects ==
    [][/\ C34_OnePerRelay(ensureRelayPending, reconnectingRelays)
       /\ C34_OnePerRelay(ensureRelayPending', reconnectingRelays')
       /\ \A r \in Relays :
              ensureRelayPending'[r] < ensureRelayPending[r] =>
                  /\ \E ok \in BOOLEAN : ReconnectSettledOf(r, ok)
                  /\ r \notin reconnectingRelays'
                  /\ \A q \in Relays \ {r} :
                         (q \in reconnectingRelays') = (q \in reconnectingRelays)
       /\ (/\ reconnectingRelays # {}
           /\ connectionMonitor
           /\ now - monitorLastFire >= reconnectIntervalMs) => ENABLED MonitorPoll
       /\ \A q \in Relays :
              (C34_OthersPending(q) /\ MonitorPoll) =>
                  ((ensureRelayPending'[q] = ensureRelayPending[q] + 1)
                      <=> (/\ shouldReconnect
                           /\ ~poolStatus[q]
                           /\ now - relayLastReconnectAttemptAt[q]
                                 >= reconnectBackoffMs(reconnectIntervalMs)
                           /\ q \notin reconnectingRelays))]_vars

\* An attempt on r2 was started by a later poll than the one that started the
\* attempt on r1, and both are pending.
C34_Witness ==
    /\ reconnectingRelays = Relays
    /\ ensureRelayPending = [r \in Relays |-> 1]
    /\ relayLastReconnectAttemptAt["r2"] > relayLastReconnectAttemptAt["r1"]
    /\ relayLastReconnectAttemptAt["r1"] > 0


\* ------------------------------------------------------------------- C35
\* C35: when close() was called while connect() was in progress (the bot
\* identity exists, connect() has not yet started the subscriptions and the
\* timer), the step in which connect() finishes leaves no active health-monitor
\* timer and no open subscription.
C35_ClosedDuringConnect == bot /\ poolReleased /\ connectPc # "ready"

C35_EarlyCloseStaysClosed ==
    [][(C35_ClosedDuringConnect /\ connectPc' = "ready") =>
           /\ ~connectionMonitor'
           /\ "open" \notin {giftWrapSubscription', dmSubscription', groupSubscription'}]_vars


\* ------------------------------------------------------------------- C36
\* C36: for each relay the `disconnect` and `reconnect` notifications of the
\* health monitor alternate: a poll emits at most one of them for a relay, and
\* never the one that was emitted last for that relay; and once a relay has a
\* stable state, that state changes in exactly the steps in which a poll emits
\* one of the two for it.
C36_Transitions(notes, r) ==
    {i \in 1..Len(notes) : /\ notes[i].type \in {"disconnect", "reconnect"}
                           /\ notes[i].relay = r}

C36_TransitionsAlternate ==
    [][\A r \in Relays :
          /\ Cardinality(C36_Transitions(emitted', r)) <= 1
          /\ \A i \in C36_Transitions(emitted', r) :
                 /\ emitted'[i].type # lastTransition[r]
                 /\ MonitorPoll
          /\ connectionState[r] # "undefined" =>
                 ((connectionState'[r] # connectionState[r])
                      <=> (C36_Transitions(emitted', r) # {}))]_vars

\* The poll that emits `reconnect` for r1 after a `disconnect` was emitted for it.
C36_Witness ==
    /\ lastTransition["r1"] = "reconnect"
    /\ connectionState["r1"] = "true"
    /\ C36_Transitions(emitted, "r1") # {}
    /\ connectionMonitorStartedAt < StartTime


\* ------------------------------------------------------------------- C37
\* C37: for each group-wrapper event id the adapter's decryptGroupWrapper is
\* called at most once, however often the event is delivered and whether it
\* comes from the group subscription or out of a gift wrap; and a step that
\* settles a call emits `mls_wrapper_decrypt_*` or `error` only for an event
\* id that had one call.
C37_DecryptNotes(notes) ==
    {i \in 1..Len(notes) :
        notes[i].type \in {"mls_wrapper_decrypt_hit", "mls_wrapper_decrypt_miss",
                           "mls_wrapper_decrypt_failed", "error"}}

C37_DecryptOncePerWrapper ==
    [][/\ \A id \in EventIds : decryptCalls'[id] <= 1
       /\ (pendingDecrypts' # pendingDecrypts /\ decryptCalls' = decryptCalls) =>
              \A i \in 1..Len(pendingDecrypts) :
                  decryptCalls[pendingDecrypts[i].event.id] > 1 =>
                      (\A decrypted \in DecryptOutcomes :
                           DecryptSettledOf(i, decrypted) =>
                               C37_DecryptNotes(emitted') = {})]_vars


\* ------------------------------------------------------------------- C38
\* C38: in restricted mode no step emits `group_discovered` with the source
\* live or history, every `group_bootstrap_complete` reports discovered = 0,
\* and a step that handles group wrappers (a delivery of the group
\* subscription, a gift wrap whose rumor is a wrapper, the wrapper scan of the
\* bootstrap) leaves knownGroupIds as it was.
C38_FromWrapper(notes) ==
    {i \in 1..Len(notes) : /\ notes[i].type = "group_discovered"
                           /\ notes[i].source \in {"live", "history"}}

C38_Counts(notes) ==
    {notes[i].discovered :
        i \in {j \in 1..Len(notes) : notes[j].type = "group_bootstrap_complete"}}

C38_WrapperStep ==
    \/ \E event \in GroupEvents : DeliverGroupEventOf(event)
    \/ \E event \in GiftWraps :
          /\ event.inner.ok
          /\ event.inner.kind = VECTOR_MLS_GROUP_WRAPPER_KIND
          /\ DeliverGiftWrapOf(event)
    \/ \E events \in SeqsUpTo(HistoryGroupEvents, MaxHistory) : BootWrappersReturned(events)

C38_WrappersDiscoverNothing ==
    [][vectorOnly =>
          /\ C38_FromWrapper(emitted') = {}
          /\ C38_Counts(emitted') \subseteq {0}
          /\ knownGroupIds' # knownGroupIds => ~C38_WrapperStep]_vars

\* Restricted mode: the wrapper scan of the bootstrap met wrappers of the
\* unknown groups g2 and (by a hex `d` tag) hex32 and has just reported
\* discovered = 0; neither group became known.
C38_Witness ==
    /\ vectorOnly
    /\ C38_Counts(emitted) = {0}
    /\ {G2, Hex32} \subseteq observedGroupIds
    /\ knownGroupIds \cap {G2, Hex32} = {}


\* ------------------------------------------------------------------- C39
\* C39: for each pubkey at most one profile lookup is issued; in particular no
\* two lookups for the same pubkey are pending together, also when a second
\* emission for a sender starts while the lookup of the first is pending.
C39_PendingFor(k) == {i \in 1..Len(pendingLookups) : pendingLookups[i].pubkey = k}

C39_OneLookupPerPubkey == \A k \in Pubkeys : Cardinality(C39_PendingFor(k)) <= 1


\* ------------------------------------------------------------------- C40
\* C40: at most one health-monitor timer is active at any time, also after
\* connect() has reached startConnectionMonitor more than once, and the
\* client's connectionMonitor handle is set exactly while one is active; a
\* start that finds a timer running clears it before it sets the new one.
C40_AtMostOne(timers, handle) ==
    /\ timers <= 1
    /\ handle <=> timers = 1

C40_OneTimer ==
    [][/\ C40_AtMostOne(activeTimers, connectionMonitor)
       /\ C40_AtMostOne(activeTimers', connectionMonitor')
       /\ (connectionMonitor /\ MonitorRestart) =>
              /\ activeTimers' = 1
              /\ connectionMonitorStartedAt' = now]_vars

\* The monitor was started again while its timer was running: a poll of the
\* earlier timer has seeded the stable state of r1, and the timer that runs
\* now was set after that poll and has not fired yet.
C40_Witness ==
    /\ connectionMonitor
    /\ activeTimers = 1
    /\ connectionState["r1"] # "undefined"
    /\ monitorLastFire = connectionMonitorStartedAt

====
